---- MODULE Spec2Model ----
(***************************************************************************)
(* The SQL column-lineage extractor of dbt-mapping-doc-generator:          *)
(*   scripts/generate_enhanced_mapping.py  (the "enhanced" parser)         *)
(*   scripts/generate_mapping_doc.py       (DbtModelAnalyzer)              *)
(* Texts are sequences of one-character strings; Python's 0-based indices  *)
(* are kept, so text[k] of the code is text[k + 1] here.                   *)
(***************************************************************************)
EXTENDS Integers, Sequences, FiniteSets, TLC

VARIABLES
  fn,             \* the function that was called
  pc,             \* where the call stands
  text,           \* the splitter's argument
  i,              \* the splitter's scan index
  depth,          \* the splitter's CASE depth (case_depth in _split_by_comma)
  paren_depth,    \* the splitter's parenthesis depth
  current,        \* the expression being accumulated
  expressions,    \* the expressions split off so far, then the result
  select_clause,  \* the argument of parse_select_columns
  columns,        \* the result of parse_select_columns
  expression,     \* the argument of extract_case_logic
  case_logic,     \* the result of extract_case_logic
  sql_content,    \* the SQL text read by generate_comprehensive_mapping
  col_name,       \* the inventory column of the mapping row being built
  diagnostics,    \* the warnings a call hands back with its result
  transform_display  \* the 'Transformation Logic' of the mapping row

splitVars == <<text, i, depth, paren_depth, current, expressions>>

parseVars == <<select_clause, columns>>

caseVars == <<expression, case_logic>>

sqlVars == <<sql_content, col_name, diagnostics, transform_display>>

vars == <<fn, pc, text, i, depth, paren_depth, current, expressions,
          select_clause, columns, expression, case_logic,
          sql_content, col_name, diagnostics, transform_display>>

(***************************************************************************)
(* Characters and the str methods the code uses.                           *)
(***************************************************************************)
LowerAlpha == <<"a","b","c","d","e","f","g","h","i","j","k","l","m",
                "n","o","p","q","r","s","t","u","v","w","x","y","z">>

UpperAlpha == <<"A","B","C","D","E","F","G","H","I","J","K","L","M",
                "N","O","P","Q","R","S","T","U","V","W","X","Y","Z">>

Digits == {"0","1","2","3","4","5","6","7","8","9"}

Range(s) == {s[k] : k \in DOMAIN s}

\* str.isalnum() of one character: a letter or a digit, never "_"
IsAlnum(c) == c \in Range(LowerAlpha) \cup Range(UpperAlpha) \cup Digits

\* str.lower() of one character
LowerChar(c) ==
  IF c \in Range(UpperAlpha)
  THEN LowerAlpha[CHOOSE k \in DOMAIN UpperAlpha : UpperAlpha[k] = c]
  ELSE c

\* str.upper() of one character
UpperChar(c) ==
  IF c \in Range(LowerAlpha)
  THEN UpperAlpha[CHOOSE k \in DOMAIN LowerAlpha : LowerAlpha[k] = c]
  ELSE c

Lower(s) == [k \in DOMAIN s |-> LowerChar(s[k])]

Upper(s) == [k \in DOMAIN s |-> UpperChar(s[k])]

Min(a, b) == IF a < b THEN a ELSE b

Max(a, b) == IF a > b THEN a ELSE b

\* the slice s[a:b] for 0 <= a
Slice(s, a, b) == SubSeq(s, a + 1, Min(b, Len(s)))

\* str.isspace() of one character
IsSpace(c) == c \in {" ", "\n", "\t"}

\* bool(s.strip()): s has a character that is not whitespace
HasText(s) == \E k \in DOMAIN s : ~IsSpace(s[k])

\* sep.join(ts)
RECURSIVE JoinWith(_, _)
JoinWith(ts, sep) ==
  IF ts = <<>> THEN <<>>
  ELSE IF Len(ts) = 1 THEN Head(ts)
  ELSE Head(ts) \o sep \o JoinWith(Tail(ts), sep)

(***************************************************************************)
(* split_by_comma_respecting_case: one iteration of the while loop.        *)
(***************************************************************************)
KwCase == <<"c","a","s","e">>

KwEnd == <<"e","n","d">>

\* i == 0 or not text[i-1].isalnum()
LeftBoundary(t, k) == k = 0 \/ ~IsAlnum(t[k])

\* RightBoundary without its first operand: text[i+w] is read past the end
RightBoundary_Unguarded(t, k, w) ==
  IF k + w >= Len(t) THEN "IndexError"
  ELSE IF IsAlnum(t[k + w + 1]) THEN "alnum" ELSE "boundary"

\* i+w >= len(text) or not text[i+w].isalnum(); text[i+w] raises IndexError
\* when i+w is past the end, which the first operand excludes
RightBoundary(t, k, w) ==
  IF k + w >= Len(t) THEN "boundary"
  ELSE IF IsAlnum(t[k + w + 1]) THEN "alnum" ELSE "boundary"

\* i + w <= len(text) and text[i:i+w].lower() == kw
KeywordAt(t, k, kw) ==
  k + Len(kw) <= Len(t) /\ Lower(Slice(t, k, k + Len(kw))) = kw

\* the keyword test of lines 119-121 and 124-126: "word", "no" or "IndexError"
WordAt(t, k, kw) ==
  IF ~KeywordAt(t, k, kw) THEN "no"
  ELSE IF ~LeftBoundary(t, k) THEN "no"
  ELSE LET r == RightBoundary(t, k, Len(kw))
       IN IF r = "IndexError" THEN "IndexError"
          ELSE IF r = "boundary" THEN "word" ELSE "no"

\* the CASE depth after lines 119-127
CaseDepthStep(t, k, d) ==
  LET d1 == IF WordAt(t, k, KwCase) = "word" THEN d + 1 ELSE d
  IN IF WordAt(t, k, KwEnd) = "word" THEN Max(0, d1 - 1) ELSE d1

\* the parenthesis depth after lines 130-133
ParenDepthStep(c, p) ==
  IF c = "(" THEN p + 1
  ELSE IF c = ")" THEN Max(0, p - 1)
  ELSE p

\* IsSplitPoint without the test of paren_depth
IsSplitPoint_NoParen(c, d, p) == c = "," /\ d = 0

\* char == ',' and depth == 0 and paren_depth == 0
IsSplitPoint(c, d, p) == c = "," /\ d = 0 /\ p = 0

\* the loop body with the whitespace characters left out of current
SplitStep_SkipSpace(t, st) ==
  LET c == t[st.i + 1]
      d == CaseDepthStep(t, st.i, st.depth)
      p == ParenDepthStep(c, st.paren_depth)
      split == IsSplitPoint(c, d, p)
  IN [i |-> st.i + 1,
      depth |-> d,
      paren_depth |-> p,
      current |-> IF split THEN <<>>
                  ELSE IF IsSpace(c) THEN st.current
                  ELSE Append(st.current, c),
      expressions |-> IF split THEN Append(st.expressions, st.current)
                      ELSE st.expressions]

\* the loop body, lines 116-142, on the locals
SplitStep(t, st) ==
  LET c == t[st.i + 1]
      d == CaseDepthStep(t, st.i, st.depth)
      p == ParenDepthStep(c, st.paren_depth)
      split == IsSplitPoint(c, d, p)
  IN [i |-> st.i + 1,
      depth |-> d,
      paren_depth |-> p,
      current |-> IF split THEN <<>> ELSE Append(st.current, c),
      expressions |-> IF split THEN Append(st.expressions, st.current)
                      ELSE st.expressions]

\* an IndexError raised by the loop body at index k
SplitRaises(t, k) ==
  WordAt(t, k, KwCase) = "IndexError" \/ WordAt(t, k, KwEnd) = "IndexError"

\* lines 144-147: the last expression is kept when it has text
SplitResult(st) ==
  IF HasText(st.current) THEN Append(st.expressions, st.current)
  ELSE st.expressions

\* lines 109-114
SplitLocals0 ==
  [i |-> 0, depth |-> 0, paren_depth |-> 0, current |-> <<>>, expressions |-> <<>>]

\* the while loop of lines 115-142 from the locals st on, then lines 144-147
RECURSIVE SplitLoop(_, _)
SplitLoop(t, st) ==
  IF st.i < Len(t) THEN SplitLoop(t, SplitStep(t, st)) ELSE SplitResult(st)

\* split_by_comma_respecting_case(text), a call that returns
split_by_comma_respecting_case(t) == SplitLoop(t, SplitLocals0)

(***************************************************************************)
(* DbtModelAnalyzer._split_by_comma: one iteration of the while loop.      *)
(***************************************************************************)
\* text[i:i+w].upper() == KW, with no boundary test
DocKeywordAt(t, k, kw) == Upper(Slice(t, k, k + Len(kw))) = Upper(kw)

\* the loop body, lines 209-237
DocSplitStep(t, st) ==
  LET c == t[st.i + 1]
  IN IF DocKeywordAt(t, st.i, KwCase)
     THEN [st EXCEPT !.depth = st.depth + 1,
                     !.current = st.current \o Slice(t, st.i, st.i + 4),
                     !.i = st.i + 4]
     ELSE IF DocKeywordAt(t, st.i, KwEnd)
     THEN [st EXCEPT !.depth = Max(0, st.depth - 1),
                     !.current = st.current \o Slice(t, st.i, st.i + 3),
                     !.i = st.i + 3]
     ELSE IF c = "("
     THEN [st EXCEPT !.paren_depth = st.paren_depth + 1,
                     !.current = Append(st.current, c),
                     !.i = st.i + 1]
     ELSE IF c = ")"
     THEN [st EXCEPT !.paren_depth = st.paren_depth - 1,
                     !.current = Append(st.current, c),
                     !.i = st.i + 1]
     ELSE IF c = "," /\ st.paren_depth = 0 /\ st.depth = 0
     THEN [st EXCEPT !.expressions = Append(st.expressions, st.current),
                     !.current = <<>>,
                     !.i = st.i + 1]
     ELSE [st EXCEPT !.current = Append(st.current, c),
                     !.i = st.i + 1]

\* lines 239-242: the last part is kept when it is not empty
DocSplitResult(st) ==
  IF st.current # <<>> THEN Append(st.expressions, st.current)
  ELSE st.expressions

\* the while loop of lines 208-237 from the locals st on, then lines 239-242
RECURSIVE DocSplitLoop(_, _)
DocSplitLoop(t, st) ==
  IF st.i < Len(t) THEN DocSplitLoop(t, DocSplitStep(t, st))
  ELSE DocSplitResult(st)

\* self._split_by_comma(text)
_split_by_comma(t) == DocSplitLoop(t, SplitLocals0)

(***************************************************************************)
(* Pieces of the regular expressions (module re): positions are 0-based    *)
(* offsets into the text, a match [a, b) covers t[a] .. t[b-1].            *)
(***************************************************************************)
\* \w of one character
IsWord(c) == IsAlnum(c) \/ c = "_"

\* \d of one character
IsDigit(c) == c \in Digits

\* the end of the longest run of whitespace that starts at offset p (\s*)
SpaceEnd(t, p) ==
  CHOOSE q \in p..Len(t) :
    /\ \A k \in (p + 1)..q : IsSpace(t[k])
    /\ q = Len(t) \/ ~IsSpace(t[q + 1])

\* the end of the longest run of \w that starts at offset p (\w*)
WordEnd(t, p) ==
  CHOOSE q \in p..Len(t) :
    /\ \A k \in (p + 1)..q : IsWord(t[k])
    /\ q = Len(t) \/ ~IsWord(t[q + 1])

\* the end of the longest run of \d that starts at offset p (\d*)
DigitEnd(t, p) ==
  CHOOSE q \in p..Len(t) :
    /\ \A k \in (p + 1)..q : IsDigit(t[k])
    /\ q = Len(t) \/ ~IsDigit(t[q + 1])

\* a literal of the pattern matches at offset p, under re.IGNORECASE
LitAt(t, p, lit) ==
  p + Len(lit) <= Len(t) /\ Lower(Slice(t, p, p + Len(lit))) = Lower(lit)

\* a literal of the pattern occurs somewhere in t (the `in` operator)
Contains(t, lit) == \E p \in 0..Len(t) : p + Len(lit) <= Len(t) /\ Slice(t, p, p + Len(lit)) = lit

\* str.strip()
Strip(s) ==
  IF ~HasText(s) THEN <<>>
  ELSE LET a == CHOOSE k \in DOMAIN s :
                  ~IsSpace(s[k]) /\ \A j \in 1..(k - 1) : IsSpace(s[j])
           b == CHOOSE k \in DOMAIN s :
                  ~IsSpace(s[k]) /\ \A j \in (k + 1)..Len(s) : IsSpace(s[j])
       IN SubSeq(s, a, b)

\* ' '.join(s.split()): runs of whitespace become one blank, the ends are trimmed
RECURSIVE JoinSplit(_)
JoinSplit(s) ==
  LET u == Strip(s)
  IN IF u = <<>> THEN <<>>
     ELSE LET e == CHOOSE q \in 1..Len(u) :
                     /\ \A k \in 1..q : ~IsSpace(u[k])
                     /\ q = Len(u) \/ IsSpace(u[q + 1])
          IN IF e = Len(u) THEN u
             ELSE SubSeq(u, 1, e) \o <<" ">> \o JoinSplit(SubSeq(u, e + 1, Len(u)))

(***************************************************************************)
(* parse_select_columns and extract_source_column.                         *)
(***************************************************************************)
\* None, and a value that is not None: a value v that may be None is held as
\* Some(v), so the empty string Some(<<>>) and None stay apart
None == <<>>

Some(v) == <<v>>

\* re.search found nothing
NoMatch == [matched |-> FALSE]

KwAs == <<"a","s">>

CommentMark == <<"-","-">>

JinjaOpen == <<"{","%">>

JinjaClose == <<"%","}">>

\* ' [jinja_template] '
JinjaPlaceholder ==
  <<" ","[","j","i","n","j","a","_","t","e","m","p","l","a","t","e","]"," ">>

\* re.sub(r'--.*?\n', '\n', s): a comment is removed up to its line's newline;
\* "." matches no newline, so a "--" with no newline after it is kept
RECURSIVE StripComments(_)
StripComments(s) ==
  IF \E p \in 0..Len(s) : LitAt(s, p, CommentMark) /\ \E q \in (p + 3)..Len(s) : s[q] = "\n"
  THEN LET p == CHOOSE a \in 0..Len(s) :
                  /\ LitAt(s, a, CommentMark) /\ \E q \in (a + 3)..Len(s) : s[q] = "\n"
                  /\ \A b \in 0..(a - 1) :
                       ~(LitAt(s, b, CommentMark) /\ \E q \in (b + 3)..Len(s) : s[q] = "\n")
           n == CHOOSE q \in (p + 3)..Len(s) :
                  s[q] = "\n" /\ \A k \in (p + 3)..(q - 1) : s[k] # "\n"
       IN SubSeq(s, 1, p) \o <<"\n">> \o StripComments(SubSeq(s, n + 1, Len(s)))
  ELSE s

\* a "{%" at offset p with a "%}" somewhere after it
JinjaAt(s, p) ==
  LitAt(s, p, JinjaOpen) /\ \E q \in (p + 2)..Len(s) : LitAt(s, q, JinjaClose)

\* re.sub(r'{%.*?%}', ' [jinja_template] ', s, flags=re.DOTALL)
RECURSIVE ReplaceJinja(_)
ReplaceJinja(s) ==
  IF \E p \in 0..Len(s) : JinjaAt(s, p)
  THEN LET p == CHOOSE a \in 0..Len(s) :
                  JinjaAt(s, a) /\ \A b \in 0..(a - 1) : ~JinjaAt(s, b)
           q == CHOOSE a \in (p + 2)..Len(s) :
                  LitAt(s, a, JinjaClose)
                  /\ \A b \in (p + 2)..(a - 1) : ~LitAt(s, b, JinjaClose)
       IN SubSeq(s, 1, p) \o JinjaPlaceholder
            \o ReplaceJinja(SubSeq(s, q + 3, Len(s)))
  ELSE s

\* the rest of r'^(.*?)\s+as\s+(\w+)\s*$' after group 1 ends at offset e:
\* \s+ and \w+ are greedy and what follows each leaves them no other length
AsTailAt(t, e) ==
  LET a == SpaceEnd(t, e)
      b == SpaceEnd(t, a + 2)
      w == WordEnd(t, b)
  IN /\ a > e
     /\ LitAt(t, a, KwAs)
     /\ b > a + 2
     /\ w > b
     /\ SpaceEnd(t, w) = Len(t)

\* re.search(r'^(.*?)\s+as\s+(\w+)\s*$', expr, re.IGNORECASE | re.DOTALL):
\* None, or groups 1 and 2; the lazy group 1 is the shortest that lets the rest match
AsMatch(t) ==
  IF \E e \in 0..Len(t) : AsTailAt(t, e)
  THEN LET e == CHOOSE x \in 0..Len(t) :
                  AsTailAt(t, x) /\ \A y \in 0..(x - 1) : ~AsTailAt(t, y)
           b == SpaceEnd(t, SpaceEnd(t, e) + 2)
       IN [matched |-> TRUE, g1 |-> Slice(t, 0, e),
           g2 |-> Slice(t, b, WordEnd(t, b))]
  ELSE NoMatch

\* a match of r'(\w+)\.(\w+)' starts at offset p
QualifiedAt(t, p) ==
  LET q == WordEnd(t, p)
  IN q > p /\ q < Len(t) /\ t[q + 1] = "." /\ WordEnd(t, q + 1) > q + 1

\* extract_source_column: the first qualifier.column of the expression, or ""
extract_source_column(e) ==
  IF \E p \in 0..Len(e) : QualifiedAt(e, p)
  THEN LET p == CHOOSE a \in 0..Len(e) :
                  QualifiedAt(e, a)
                  /\ \A b \in 0..(a - 1) : ~QualifiedAt(e, b)
       IN Slice(e, p, WordEnd(e, WordEnd(e, p) + 1))
  ELSE <<>>

\* the record with the flag of line 102 never set
ColumnRecord_NeverCase(m) ==
  LET e == JoinSplit(Strip(m.g1))
  IN [expression |-> e,
      source_column |-> extract_source_column(e),
      is_case |-> FALSE]

\* lines 93-103: the record stored for one matched expression
ColumnRecord(m) ==
  LET e == JoinSplit(Strip(m.g1))
  IN [expression |-> e,
      source_column |-> extract_source_column(e),
      is_case |-> Contains(Lower(e), KwCase)]

\* the assignment that keeps the record an alias already has
StoreColumn_KeepFirst(cols, name, rec) ==
  [a \in DOMAIN cols \cup {name} |-> IF a \in DOMAIN cols THEN cols[a] ELSE rec]

\* lines 99-103: columns[col_name] = {...}
StoreColumn(cols, name, rec) ==
  [a \in DOMAIN cols \cup {name} |-> IF a = name THEN rec ELSE cols[a]]

\* the for loop with a break in the place of the continue of line 87 or 92
RECURSIVE ColumnsFrom_BreakOnSkip(_, _, _)
ColumnsFrom_BreakOnSkip(exprs, k, cols) ==
  IF k > Len(exprs) THEN cols
  ELSE LET expr == Strip(exprs[k])
           m == IF expr = <<>> THEN NoMatch ELSE AsMatch(expr)
       IN IF ~m.matched THEN cols
          ELSE LET name == Upper(Strip(m.g2))
                   rec == ColumnRecord(m)
               IN ColumnsFrom_BreakOnSkip(exprs, k + 1, StoreColumn(cols, name, rec))

\* the for loop of lines 84-103 over the expressions from offset k on
RECURSIVE ColumnsFrom(_, _, _)
ColumnsFrom(exprs, k, cols) ==
  IF k > Len(exprs) THEN cols
  ELSE LET expr == Strip(exprs[k])
           m == IF expr = <<>> THEN NoMatch ELSE AsMatch(expr)
       IN IF ~m.matched THEN ColumnsFrom(exprs, k + 1, cols)
          ELSE LET name == Upper(Strip(m.g2))
                   rec == ColumnRecord(m)
               IN ColumnsFrom(exprs, k + 1, StoreColumn(cols, name, rec))

\* the empty dict
EmptyDict == [a \in {} |-> None]

\* parse_select_columns(select_clause), a call that returns
parse_select_columns(clause) ==
  ColumnsFrom(split_by_comma_respecting_case(ReplaceJinja(StripComments(clause))),
              1, EmptyDict)

(***************************************************************************)
(* extract_case_logic.                                                     *)
(***************************************************************************)
KwWhen == <<"w","h","e","n">>

KwThen == <<"t","h","e","n">>

KwElse == <<"e","l","s","e">>

\* the value literals of when_patterns, lines 168-174, in the order tried:
\* 'value', "value", 123, 'value' once more, and a bare word
when_patterns == <<"single", "double", "digits", "single", "word">>

\* the value literals of else_patterns, lines 192-197
else_patterns == <<"single", "double", "digits", "word">>

NoLiteral == [matched |-> FALSE]

\* '([^']*)' or "([^"]*)" at offset b: the text up to the next quote
QuotedAt(t, b, quote) ==
  IF b < Len(t) /\ t[b + 1] = quote /\ \E c \in (b + 2)..Len(t) : t[c] = quote
  THEN LET c == CHOOSE x \in (b + 2)..Len(t) :
                  t[x] = quote /\ \A y \in (b + 2)..(x - 1) : t[y] # quote
       IN [matched |-> TRUE, value |-> SubSeq(t, b + 2, c - 1), end |-> c]
  ELSE NoLiteral

\* the value literal of one kind at offset b: its group and the offset after it
LiteralAt(t, b, kind) ==
  IF kind = "single" THEN QuotedAt(t, b, "'")
  ELSE IF kind = "double" THEN QuotedAt(t, b, "\"")
  ELSE IF kind = "digits"
  THEN IF DigitEnd(t, b) > b
       THEN [matched |-> TRUE, value |-> Slice(t, b, DigitEnd(t, b)),
             end |-> DigitEnd(t, b)]
       ELSE NoLiteral
  ELSE IF WordEnd(t, b) > b
       THEN [matched |-> TRUE, value |-> Slice(t, b, WordEnd(t, b)),
             end |-> WordEnd(t, b)]
       ELSE NoLiteral

\* \s+then\s+<literal> at offset e, the rest of a when pattern after group 1
ThenTailAt(t, e, kind) ==
  LET a == SpaceEnd(t, e)
  IN IF a > e /\ LitAt(t, a, KwThen) /\ SpaceEnd(t, a + 4) > a + 4
     THEN LiteralAt(t, SpaceEnd(t, a + 4), kind)
     ELSE NoLiteral

\* a match of r"when\s+(.*?)\s+then\s+<literal>" that starts at offset p, under
\* re.IGNORECASE | re.DOTALL.  The first \s+ is greedy and group 1 lazy: group 1
\* starts after all the whitespace and is the shortest that lets the rest
\* match; when no such match exists the \s+ gives back one blank and group 1
\* is empty
WhenMatchAt(t, p, kind) ==
  IF ~LitAt(t, p, KwWhen) \/ SpaceEnd(t, p + 4) = p + 4 THEN NoMatch
  ELSE LET w == SpaceEnd(t, p + 4)
       IN IF \E e \in w..Len(t) : ThenTailAt(t, e, kind).matched
          THEN LET e == CHOOSE x \in w..Len(t) :
                          /\ ThenTailAt(t, x, kind).matched
                          /\ \A y \in w..(x - 1) : ~ThenTailAt(t, y, kind).matched
                   tail == ThenTailAt(t, e, kind)
               IN [matched |-> TRUE, start |-> p, end |-> tail.end,
                   g1 |-> Slice(t, w, e), g2 |-> tail.value]
          ELSE IF w >= p + 6 /\ ThenTailAt(t, w - 1, kind).matched
          THEN LET tail == ThenTailAt(t, w - 1, kind)
               IN [matched |-> TRUE, start |-> p, end |-> tail.end,
                   g1 |-> <<>>, g2 |-> tail.value]
          ELSE NoMatch

\* re.finditer(pattern, expression, ...) from offset pos on: the matches that
\* do not overlap, leftmost first
RECURSIVE WhenMatches(_, _, _)
WhenMatches(t, pos, kind) ==
  IF \E p \in pos..Len(t) : WhenMatchAt(t, p, kind).matched
  THEN LET p == CHOOSE x \in pos..Len(t) :
                  /\ WhenMatchAt(t, x, kind).matched
                  /\ \A y \in pos..(x - 1) : ~WhenMatchAt(t, y, kind).matched
           m == WhenMatchAt(t, p, kind)
       IN <<m>> \o WhenMatches(t, m.end, kind)
  ELSE <<>>

\* lines 179-183 of one match: the condition and the value
BranchOf(m) == [when |-> JoinSplit(Strip(m.g1)), then |-> Strip(m.g2)]

\* if condition and value
IsKept(m) == BranchOf(m).when # <<>> /\ BranchOf(m).then # <<>>

\* the for loops of lines 176-189 from pattern k on: the matches whose branch
\* is appended, in the order they are appended
RECURSIVE KeptMatchesFrom(_, _)
KeptMatchesFrom(t, k) ==
  IF k > Len(when_patterns) THEN <<>>
  ELSE SelectSeq(WhenMatches(t, 0, when_patterns[k]), IsKept)
         \o KeptMatchesFrom(t, k + 1)

KeptMatches(t) == KeptMatchesFrom(t, 1)

\* case_logic['conditions'] after line 189
Conditions(t) ==
  [k \in DOMAIN KeptMatches(t) |-> BranchOf(KeptMatches(t)[k])]

\* a match of r"else\s+<literal>" that starts at offset p
ElseMatchAt(t, p, kind) ==
  IF LitAt(t, p, KwElse) /\ SpaceEnd(t, p + 4) > p + 4
  THEN LiteralAt(t, SpaceEnd(t, p + 4), kind)
  ELSE NoLiteral

\* re.search(pattern, expression, re.IGNORECASE) of one else pattern
ElseSearch(t, kind) ==
  IF \E p \in 0..Len(t) : ElseMatchAt(t, p, kind).matched
  THEN ElseMatchAt(t, CHOOSE x \in 0..Len(t) :
                        /\ ElseMatchAt(t, x, kind).matched
                        /\ \A y \in 0..(x - 1) : ~ElseMatchAt(t, y, kind).matched,
                   kind)
  ELSE NoLiteral

\* the for loop of lines 199-203 from pattern k on
RECURSIVE ElseValueFrom(_, _)
ElseValueFrom(t, k) ==
  IF k > Len(else_patterns) THEN None
  ELSE IF ElseSearch(t, else_patterns[k]).matched
  THEN Some(Strip(ElseSearch(t, else_patterns[k]).value))
  ELSE ElseValueFrom(t, k + 1)

\* extract_case_logic that gives up (None) when it finds no branch
extract_case_logic_NoneWhenEmpty(t) ==
  IF ~Contains(Lower(t), KwCase) \/ Conditions(t) = <<>> THEN None
  ELSE Some([conditions |-> Conditions(t), else_value |-> ElseValueFrom(t, 1)])

\* extract_case_logic(expression): None, or the case logic
extract_case_logic(t) ==
  IF ~Contains(Lower(t), KwCase) THEN None
  ELSE Some([conditions |-> Conditions(t), else_value |-> ElseValueFrom(t, 1)])

(***************************************************************************)
(* format_case_logic and the transformation text of a mapping row.         *)
(***************************************************************************)
WhenLimit == 50

WhenKept == 47

DisplayLimit == 300

\* line 219 for one branch, the condition shortened by lines 217-218
FormatBranch(cond) ==
  LET when == IF Len(cond.when) > WhenLimit
              THEN Slice(cond.when, 0, WhenKept) \o <<".", ".", ".">>
              ELSE cond.when
  IN <<"W","H","E","N"," ">> \o when \o <<" ","T","H","E","N"," ","'">>
       \o cond.then \o <<"'">>

\* lines 221-222: the line of the else value, when there is one
FormatElse(else_value) ==
  IF else_value = None \/ else_value = Some(<<>>) THEN <<>>
  ELSE << <<"E","L","S","E"," ","'">> \o else_value[1] \o <<"'">> >>

\* format_case_logic(case_logic)
format_case_logic(cl) ==
  IF cl = None \/ cl[1].conditions = <<>> THEN <<>>
  ELSE JoinWith([k \in DOMAIN cl[1].conditions |->
                   FormatBranch(cl[1].conditions[k])]
                  \o FormatElse(cl[1].else_value),
                <<" ", "|", " ">>)

\* the text shown when line 387 has no fallback to the expression
TransformDisplay_SummaryOnly(e, cl) ==
  IF cl # None THEN format_case_logic(cl) ELSE <<>>

\* lines 338-342 and 387: the text shown for an expression and its case logic
TransformDisplay(e, cl) ==
  LET case_summary == IF cl # None THEN format_case_logic(cl) ELSE <<>>
  IN IF case_summary # <<>> THEN case_summary ELSE Slice(e, 0, DisplayLimit)

(***************************************************************************)
(* parse_final_select_enhanced.                                            *)
(***************************************************************************)
KwFinal == <<"f","i","n","a","l">>

KwSelect == <<"s","e","l","e","c","t">>

KwFrom == <<"f","r","o","m">>

\* final\s+as\s*\( matches at offset s
FinalHeadAt(t, s) ==
  /\ LitAt(t, s, KwFinal)
  /\ LET a == SpaceEnd(t, s + 5)
     IN /\ a > s + 5
        /\ LitAt(t, a, KwAs)
        /\ LET b == SpaceEnd(t, a + 2)
           IN b < Len(t) /\ t[b + 1] = "("

\* the offset where group 1 starts, for a head that matches at offset s
FinalBodyStart(t, s) == SpaceEnd(t, SpaceEnd(t, s + 5) + 2) + 1

\* \)\s*select\s+\*\s+from\s+final matches at offset e
FinalTailAt(t, e) ==
  /\ e < Len(t)
  /\ t[e + 1] = ")"
  /\ LET a == SpaceEnd(t, e + 1)
     IN /\ LitAt(t, a, KwSelect)
        /\ LET b == SpaceEnd(t, a + 6)
           IN /\ b > a + 6
              /\ b < Len(t)
              /\ t[b + 1] = "*"
              /\ LET c == SpaceEnd(t, b + 1)
                 IN /\ c > b + 1
                    /\ LitAt(t, c, KwFrom)
                    /\ LET d == SpaceEnd(t, c + 4)
                       IN d > c + 4 /\ LitAt(t, d, KwFinal)

\* the whole pattern matches from offset s
FinalMatchAt(t, s) ==
  /\ FinalHeadAt(t, s)
  /\ \E e \in FinalBodyStart(t, s)..Len(t) : FinalTailAt(t, e)

\* re.search(final_pattern, sql_content, re.DOTALL | re.IGNORECASE), lines 38-39:
\* the leftmost match, its lazy group 1 the shortest that lets the rest match
FinalMatch(t) ==
  IF \E s \in 0..Len(t) : FinalMatchAt(t, s)
  THEN LET s == CHOOSE x \in 0..Len(t) :
                  FinalMatchAt(t, x) /\ \A y \in 0..(x - 1) : ~FinalMatchAt(t, y)
           b == FinalBodyStart(t, s)
           e == CHOOSE x \in b..Len(t) :
                  FinalTailAt(t, x) /\ \A y \in b..(x - 1) : ~FinalTailAt(t, y)
       IN [matched |-> TRUE, g1 |-> Slice(t, b, e)]
  ELSE NoMatch

\* s.split('\n')
RECURSIVE SplitLines(_)
SplitLines(s) ==
  IF \A k \in DOMAIN s : s[k] # "\n" THEN <<s>>
  ELSE LET k == CHOOSE a \in DOMAIN s :
                  s[a] = "\n" /\ \A b \in 1..(a - 1) : s[b] # "\n"
       IN <<SubSeq(s, 1, k - 1)>> \o SplitLines(SubSeq(s, k + 1, Len(s)))

\* s.startswith(prefix)
StartsWith(s, prefix) ==
  Len(prefix) <= Len(s) /\ SubSeq(s, 1, Len(prefix)) = prefix

\* lines 52-58: the loop over the lines from index k on; it stops at the
\* first from-line after a select-line
RECURSIVE LineLoop(_, _, _)
LineLoop(lines, k, st) ==
  IF k >= Len(lines) THEN st
  ELSE LET stripped == Lower(Strip(lines[k + 1]))
       IN IF StartsWith(stripped, KwSelect)
          THEN LineLoop(lines, k + 1, [st EXCEPT !.select_start = k])
          ELSE IF st.select_start >= 0 /\ StartsWith(stripped, KwFrom)
          THEN [st EXCEPT !.from_line = k]
          ELSE LineLoop(lines, k + 1, st)

\* lines 48-58: select_start and from_line for the body of the final CTE
SelectBounds(final_cte) ==
  LineLoop(SplitLines(final_cte), 0, [select_start |-> -1, from_line |-> -1])

\* lines 39-61: the function reaches line 63, it has found the CTE and the
\* select-line/from-line pair in it
StructureFound(sql) ==
  /\ FinalMatch(sql).matched
  /\ LET st == SelectBounds(FinalMatch(sql).g1)
     IN ~(st.select_start < 0 \/ st.from_line < 0)

\* lines 63-64: the lines between the select-line and the from-line
SelectClauseOf(sql) ==
  LET final_cte == FinalMatch(sql).g1
      st == SelectBounds(final_cte)
  IN JoinWith(SubSeq(SplitLines(final_cte), st.select_start + 2, st.from_line),
              <<"\n">>)

\* parse_final_select_enhanced(sql_content), a call that returns
parse_final_select_enhanced(sql) ==
  IF ~StructureFound(sql) THEN EmptyDict
  ELSE parse_select_columns(SelectClauseOf(sql))

(***************************************************************************)
(* DbtModelAnalyzer._parse_select_columns and _extract_source_columns.     *)
(***************************************************************************)
\* \b at offset p: a \w character on exactly one side
WordBoundary(t, p) ==
  (p > 0 /\ IsWord(t[p])) # (p < Len(t) /\ IsWord(t[p + 1]))

\* re.sub(r'^\s*select\s+', '', select_statement, flags=re.IGNORECASE), line 164
RemoveSelect(t) ==
  LET a == SpaceEnd(t, 0)
  IN IF LitAt(t, a, KwSelect) /\ SpaceEnd(t, a + 6) > a + 6
     THEN Slice(t, SpaceEnd(t, a + 6), Len(t))
     ELSE t

\* \bfrom\b matches at offset p, under re.IGNORECASE
FromAt(t, p) ==
  LitAt(t, p, KwFrom) /\ WordBoundary(t, p) /\ WordBoundary(t, p + 4)

\* re.split(r'\bfrom\b', select_content, flags=re.IGNORECASE)[0], line 167
BeforeFrom(t) ==
  IF \E p \in 0..Len(t) : FromAt(t, p)
  THEN LET p == CHOOSE a \in 0..Len(t) :
                  FromAt(t, a) /\ \A b \in 0..(a - 1) : ~FromAt(t, b)
       IN Slice(t, 0, p)
  ELSE t

\* lines 164-167: the text handed to _split_by_comma
SelectContent(select_statement) == BeforeFrom(Strip(RemoveSelect(select_statement)))

\* $ matches at offset p: the end of the text, or just before a last newline
AtEnd(t, p) == p = Len(t) \/ (p = Len(t) - 1 /\ t[Len(t)] = "\n")

\* (\w+)$ matches at offset p
WordTail(t, p) == WordEnd(t, p) > p /\ AtEnd(t, WordEnd(t, p))

\* as\s+(\w+)$ matches at offset q
DocAsAt(t, q) ==
  /\ LitAt(t, q, KwAs)
  /\ SpaceEnd(t, q + 2) > q + 2
  /\ WordTail(t, SpaceEnd(t, q + 2))

\* \s+(?:as\s+)?(\w+)$ matches at offset e
DocAsTailAt(t, e) ==
  LET q == SpaceEnd(t, e)
  IN q > e /\ (DocAsAt(t, q) \/ WordTail(t, q))

\* (.+?) from offset s to e, no newline in it, and the rest matches at e
DocAsMatchAt(t, s, e) ==
  /\ e > s
  /\ \A k \in (s + 1)..e : t[k] # "\n"
  /\ DocAsTailAt(t, e)

\* re.search(r'(.+?)\s+(?:as\s+)?(\w+)$', col_str, re.IGNORECASE), line 179:
\* the leftmost match, its lazy group 1 the shortest, the as keyword taken
\* when it can be
DocAsMatch(t) ==
  IF \E s \in 0..Len(t) : \E e \in s..Len(t) : DocAsMatchAt(t, s, e)
  THEN LET s == CHOOSE x \in 0..Len(t) :
                  /\ \E e \in x..Len(t) : DocAsMatchAt(t, x, e)
                  /\ \A y \in 0..(x - 1) :
                       ~\E e \in y..Len(t) : DocAsMatchAt(t, y, e)
           e == CHOOSE x \in s..Len(t) :
                  /\ DocAsMatchAt(t, s, x)
                  /\ \A y \in s..(x - 1) : ~DocAsMatchAt(t, s, y)
           q == SpaceEnd(t, e)
           r == IF DocAsAt(t, q) THEN SpaceEnd(t, q + 2) ELSE q
       IN [matched |-> TRUE, g1 |-> Slice(t, s, e), g2 |-> Slice(t, r, WordEnd(t, r))]
  ELSE NoMatch

\* col_str.split('.')[-1], line 187
AfterLastDot(t) ==
  IF \A k \in DOMAIN t : t[k] # "." THEN t
  ELSE LET k == CHOOSE a \in DOMAIN t :
                  t[a] = "." /\ \A b \in (a + 1)..Len(t) : t[b] # "."
       IN SubSeq(t, k + 1, Len(t))

\* [a-zA-Z_] of one character
IsIdentStart(c) == c \in Range(LowerAlpha) \cup Range(UpperAlpha) \cup {"_"}

\* the keywords that _extract_source_columns leaves out, lines 256-258
ReservedKeywords ==
  { <<"S","E","L","E","C","T">>, <<"F","R","O","M">>,
    <<"W","H","E","R","E">>, <<"A","N","D">>, <<"O","R">>, <<"A","S">>,
    <<"C","A","S","E">>, <<"W","H","E","N">>, <<"T","H","E","N">>,
    <<"E","L","S","E">>, <<"E","N","D">>, <<"N","U","L","L">>,
    <<"T","R","U","E">>, <<"F","A","L","S","E">>, <<"I","N">>,
    <<"N","O","T">>, <<"I","S">>, <<"L","I","K","E">>,
    <<"B","E","T","W","E","E","N">>, <<"E","X","I","S","T","S">>,
    <<"A","L","L">>, <<"A","N","Y">> }

\* a match of column_pattern starts at offset p
DocColumnAt(t, p) ==
  p < Len(t) /\ WordBoundary(t, p) /\ IsIdentStart(t[p + 1])

\* the match at offset p has its optional table part
DocQualifiedAt(t, p) ==
  LET w == WordEnd(t, p)
  IN w + 1 < Len(t) /\ t[w + 1] = "." /\ IsIdentStart(t[w + 2])

\* re.findall(column_pattern, transformation), lines 248-259, from offset p
\* on: the column part of each match, in upper case, keywords left out
RECURSIVE DocSourceColumnsFrom(_, _)
DocSourceColumnsFrom(t, p) ==
  IF p >= Len(t) THEN {}
  ELSE IF ~DocColumnAt(t, p) THEN DocSourceColumnsFrom(t, p + 1)
  ELSE LET w == WordEnd(t, p)
           a == IF DocQualifiedAt(t, p) THEN w + 1 ELSE p
           b == WordEnd(t, a)
           col == Upper(Slice(t, a, b))
       IN (IF col \in ReservedKeywords THEN {} ELSE {col})
            \cup DocSourceColumnsFrom(t, b)

\* self._extract_source_columns(transformation): list(set(columns))
_extract_source_columns(transformation) == DocSourceColumnsFrom(transformation, 0)

\* lines 177-196: the record appended for one column string that is not empty
DocColumnRecord(col_str) ==
  LET as_match == DocAsMatch(col_str)
      transformation == IF as_match.matched THEN Strip(as_match.g1) ELSE col_str
      column_name == IF as_match.matched THEN Strip(as_match.g2)
                     ELSE Strip(AfterLastDot(col_str))
  IN [column_name |-> Upper(column_name),
      transformation |-> transformation,
      source_columns |-> _extract_source_columns(transformation)]

\* the for loop of lines 172-196 over the column strings from index k on
RECURSIVE DocColumnsFrom(_, _, _)
DocColumnsFrom(column_strings, k, cols) ==
  IF k > Len(column_strings) THEN cols
  ELSE LET col_str == Strip(column_strings[k])
       IN IF col_str = <<>> THEN DocColumnsFrom(column_strings, k + 1, cols)
          ELSE DocColumnsFrom(column_strings, k + 1,
                              Append(cols, DocColumnRecord(col_str)))

\* self._parse_select_columns(select_statement), a call that returns
_parse_select_columns(select_statement) ==
  DocColumnsFrom(_split_by_comma(SelectContent(select_statement)), 1, <<>>)

(***************************************************************************)
(* Input texts.  A splitter text is a concatenation of a few tokens; a     *)
(* select clause is a few column expressions joined by ",\n".              *)
(***************************************************************************)
MaxTokens == 4

MaxColumns == 2

IdentCaseId == <<"C","A","S","E","_","I","D">>

IdentEndDate == <<"E","N","D","D","A","T","E">>

\* pieces of column lists: keywords in both letter cases, punctuation, a
\* letter and an underscore that grow keywords into identifiers
SplitTokens ==
  { KwCase, <<"E","N","D">>, <<",">>, <<"(">>, <<")">>, <<" ">>, <<"x">>, <<"_">> }

\* the same with the identifiers that merely begin with a keyword
SplitterTokens == SplitTokens \cup {KwEnd, IdentCaseId, IdentEndDate}

RECURSIVE Flatten(_)
Flatten(ts) == IF ts = <<>> THEN <<>> ELSE Head(ts) \o Flatten(Tail(ts))

TokenSeqs(T, n) == UNION { [1..m -> T] : m \in 0..n }

SplitTexts == { Flatten(ts) : ts \in TokenSeqs(SplitTokens, MaxTokens) }

SplitterTexts == { Flatten(ts) : ts \in TokenSeqs(SplitterTokens, MaxTokens) }

\* a.txn_type as txn_type
ExprTxnType ==
  <<"a",".","t","x","n","_","t","y","p","e"," ","a","s"," ","t","x","n","_",
    "t","y","p","e">>

\* coalesce(a.x, b.y, 0) as z
ExprCoalesce ==
  <<"c","o","a","l","e","s","c","e","(","a",".","x",","," ","b",".","y",",",
    " ","0",")"," ","a","s"," ","z">>

\* a.x y
ExprNoAs == <<"a",".","x"," ","y">>

\* b.z AS W
ExprUpperAs == <<"b",".","z"," ","A","S"," ","W">>

\* a.x
ExprNoAlias == <<"a",".","x">>

\* a.case_id as c
ExprCaseId ==
  <<"a",".","c","a","s","e","_","i","d"," ","a","s"," ","c">>

\* case when a.amt > 0 then 1 end as d
ExprCaseInt ==
  <<"c","a","s","e"," ","w","h","e","n"," ","a",".","a","m","t"," ",">"," ",
    "0"," ","t","h","e","n"," ","1"," ","e","n","d"," ","a","s"," ","d">>

ColumnExprs ==
  { ExprTxnType, ExprCoalesce, ExprNoAs, ExprUpperAs, ExprNoAlias,
    ExprCaseId, ExprCaseInt }

SelectClauses ==
  { JoinWith(ts, <<",", "\n">>) : ts \in TokenSeqs(ColumnExprs, MaxColumns) }

\* column lists with template blocks: a few of the markers of a block and
\* of a comment and the characters the splitter looks at, then a last line
\* with a column
TemplateTokens ==
  { JinjaOpen, JinjaClose, CommentMark, <<"\n">>, <<",">>, <<"(">>, KwCase, <<" ">> }

TemplateClauses ==
  { Flatten(ts) \o <<"\n">> \o ExprUpperAs : ts \in TokenSeqs(TemplateTokens, MaxTokens) }

\* select statements: the same column lists between select and a from clause
SelectStatements ==
  { KwSelect \o <<" ">> \o c \o <<"\n">> \o KwFrom \o <<" ", "t">> :
      c \in SelectClauses }

\* CASE expressions: a keyword, a few WHEN/THEN units, an optional ELSE, END,
\* with the keywords in lower or in upper case
MaxUnits == 2

CaseConds == { <<"a">>, <<"b">> }

\* '1', '2', "q", 5, x and ''
CaseLits ==
  { <<"'","1","'">>, <<"'","2","'">>, <<"\"","q","\"">>, <<"5">>, <<"x">>,
    <<"'","'">> }

\* '3', 7 and y
ElseLits == { <<"'","3","'">>, <<"7">>, <<"y">> }

CaseUnits == [cond : CaseConds, lit : CaseLits]

InCase(upper, s) == IF upper THEN Upper(s) ELSE s

RECURSIVE UnitsText(_, _)
UnitsText(us, upper) ==
  IF us = <<>> THEN <<>>
  ELSE <<" ">> \o InCase(upper, KwWhen) \o <<" ">> \o Head(us).cond
         \o <<" ">> \o InCase(upper, KwThen) \o <<" ">> \o Head(us).lit
         \o UnitsText(Tail(us), upper)

CaseText(us, el, upper) ==
  InCase(upper, KwCase) \o UnitsText(us, upper)
    \o (IF el = None THEN <<>>
        ELSE <<" ">> \o InCase(upper, KwElse) \o <<" ">> \o el[1])
    \o <<" ">> \o InCase(upper, KwEnd)

\* case when orelse then 1 end
ExprOrElse ==
  <<"c","a","s","e"," ","w","h","e","n"," ","o","r","e","l","s","e"," ","t",
    "h","e","n"," ","1"," ","e","n","d">>

CaseExprs ==
  { CaseText(us, el, upper) :
      us \in TokenSeqs(CaseUnits, MaxUnits),
      el \in {None} \cup {Some(l) : l \in ElseLits},
      upper \in BOOLEAN }
    \cup {ExprNoAlias, ExprOrElse}

\* CASE WHEN a THEN '1' WHEN b THEN '2' ELSE '3' END
ExampleCase ==
  CaseText(<<[cond |-> <<"a">>, lit |-> <<"'","1","'">>],
             [cond |-> <<"b">>, lit |-> <<"'","2","'">>]>>,
           Some(<<"'","3","'">>), TRUE)

\* SQL files: a head, a few lines, a tail, each on lines of its own
MaxLines == 4

\* with final as (
HeadFinal ==
  <<"w","i","t","h"," ","f","i","n","a","l"," ","a","s"," ","(">>

\* with src as (
HeadSrc ==
  <<"w","i","t","h"," ","s","r","c"," ","a","s"," ","(">>

\* ) select * from final
TailFinal ==
  <<")"," ","s","e","l","e","c","t"," ","*"," ","f","r","o","m"," ","f","i",
    "n","a","l">>

\* ) select * from src
TailSrc ==
  <<")"," ","s","e","l","e","c","t"," ","*"," ","f","r","o","m"," ","s","r",
    "c">>

\* a.x as y,
LineColumn ==
  <<"a",".","x"," ","a","s"," ","y",",">>

\* case when a then 'C' end as d
LineCase ==
  <<"c","a","s","e"," ","w","h","e","n"," ","a"," ","t","h","e","n"," ","'",
    "C","'"," ","e","n","d"," ","a","s"," ","d">>

\* from t
LineFrom ==
  <<"f","r","o","m"," ","t">>

SqlHeads == {HeadFinal, HeadSrc}

SqlTails == {TailFinal, TailSrc}

SqlLines == {KwSelect, LineColumn, LineCase, LineFrom}

SqlText(head, body, tail) == JoinWith(<<head>> \o body \o <<tail>>, <<"\n">>)

\* select a.txn_type as txn_type, case when a.amt > 0 then 'CREDIT' when a.amt < 0 then 'DEBIT' else 'ZERO' end as txn_direction from txn a
SqlScenario ==
  <<"s","e","l","e","c","t"," ","a",".","t","x","n","_","t","y","p","e"," ",
    "a","s"," ","t","x","n","_","t","y","p","e",","," ","c","a","s","e"," ",
    "w","h","e","n"," ","a",".","a","m","t"," ",">"," ","0"," ","t","h","e",
    "n"," ","'","C","R","E","D","I","T","'"," ","w","h","e","n"," ","a",".",
    "a","m","t"," ","<"," ","0"," ","t","h","e","n"," ","'","D","E","B","I",
    "T","'"," ","e","l","s","e"," ","'","Z","E","R","O","'"," ","e","n","d",
    " ","a","s"," ","t","x","n","_","d","i","r","e","c","t","i","o","n"," ",
    "f","r","o","m"," ","t","x","n"," ","a">>

\* case when a.amt > 0 then 'CREDIT' when a.amt < 0 then 'DEBIT' else 'ZERO' end as txn_direction
LineTxnDirection ==
  <<"c","a","s","e"," ","w","h","e","n"," ","a",".","a","m","t"," ",">"," ",
    "0"," ","t","h","e","n"," ","'","C","R","E","D","I","T","'"," ","w","h",
    "e","n"," ","a",".","a","m","t"," ","<"," ","0"," ","t","h","e","n"," ",
    "'","D","E","B","I","T","'"," ","e","l","s","e"," ","'","Z","E","R","O",
    "'"," ","e","n","d"," ","a","s"," ","t","x","n","_","d","i","r","e","c",
    "t","i","o","n">>

\* from txn a
LineFromTxn ==
  <<"f","r","o","m"," ","t","x","n"," ","a">>

\* the scenario's statement as the body of the final CTE, a line for the
\* select keyword, for each column and for the from clause
SqlScenarioFinal ==
  SqlText(HeadFinal,
          <<KwSelect, ExprTxnType \o <<",">>, LineTxnDirection, LineFromTxn>>,
          TailFinal)

\* a.case_id as c
LineCaseId == ExprCaseId

\* case when a then (b) end as e
LineCaseParen ==
  <<"c","a","s","e"," ","w","h","e","n"," ","a"," ","t","h","e","n"," ","(",
    "b",")"," ","e","n","d"," ","a","s"," ","e">>

\* case when a then '' end as f
LineCaseEmpty ==
  <<"c","a","s","e"," ","w","h","e","n"," ","a"," ","t","h","e","n"," ","'",
    "'"," ","e","n","d"," ","a","s"," ","f">>

\* case when a then (b+b+ ... b+) end as g, with DisplayLimit characters
\* between the parentheses
LineCaseLong ==
  <<"c","a","s","e"," ","w","h","e","n"," ","a"," ","t","h","e","n"," ","(">>
    \o [k \in 1..DisplayLimit |-> IF k % 2 = 1 THEN "b" ELSE "+"]
    \o <<")"," ","e","n","d"," ","a","s"," ","g">>

\* conditional columns that extract_case_logic finds no branch in
NoBranchLines == {LineCaseId, LineCaseParen, LineCaseEmpty, LineCaseLong}

SqlTexts ==
  { SqlText(head, body, tail) :
      head \in SqlHeads, body \in TokenSeqs(SqlLines, MaxLines),
      tail \in SqlTails }
    \cup { SqlText(HeadFinal, <<KwSelect, line, LineFrom>>, TailFinal) :
             line \in NoBranchLines }
    \cup {SqlScenario, SqlScenarioFinal}

\* with semifinal as ( / select / c.v as u / from t / ), / final as (
HeadSemifinal ==
  <<"w","i","t","h"," ","s","e","m","i","f","i","n","a","l"," ","a","s"," ",
    "(","\n","s","e","l","e","c","t","\n","c",".","v"," ","a","s"," ","u",
    "\n","f","r","o","m"," ","t","\n",")",",","\n","f","i","n","a","l"," ",
    "a","s"," ","(">>

\* with src as ( / select / c.v as u / from t / ), / final as (
HeadSrcFinal ==
  <<"w","i","t","h"," ","s","r","c"," ","a","s"," ","(","\n","s","e","l",
    "e","c","t","\n","c",".","v"," ","a","s"," ","u","\n","f","r","o","m",
    " ","t","\n",")",",","\n","f","i","n","a","l"," ","a","s"," ","(">>

\* b.z as w, -- c, d
LineCommented ==
  <<"b",".","z"," ","a","s"," ","w",","," ","-","-"," ","c",","," ","d">>

\* from_account_id as x,
LineFromId ==
  <<"f","r","o","m","_","a","c","c","o","u","n","t","_","i","d"," ","a","s",
    " ","x",",">>

\* selected_flag as s,
LineSelected ==
  <<"s","e","l","e","c","t","e","d","_","f","l","a","g"," ","a","s"," ","s",
    ",">>

\* f(a.x) as k,
LineCall ==
  <<"f","(","a",".","x",")"," ","a","s"," ","k",",">>

\* the heads of a text whose terminal CTE is named final
FinalHeads == {HeadFinal, HeadSemifinal, HeadSrcFinal}

\* the lines of a projection
ProjectionLines ==
  {LineCall, LineCommented, LineFromId, LineSelected, LineCase}

\* a final CTE, alone or after another CTE, with a select-line, a few
\* projection lines and a from-line
FinalTexts ==
  { SqlText(head, <<KwSelect>> \o ts \o <<LineFrom>>, TailFinal) :
      head \in FinalHeads, ts \in TokenSeqs(ProjectionLines, MaxColumns) }

\* f(a,b)
SegCall ==
  <<"f","(","a",",","b",")">>

\* case a,b end
SegCase ==
  <<"c","a","s","e"," ","a",",","b"," ","e","n","d">>

\* case 'END',c end
SegCaseQuotedEnd ==
  <<"c","a","s","e"," ","'","E","N","D","'",",","c"," ","e","n","d">>

\* the segments of a column list: empty, blank, a name with and without
\* blanks around it, and segments with commas of their own
Segments ==
  { <<>>, <<" ">>, <<"a">>, <<" ", "y", " ">>, SegCall, SegCase,
    SegCaseQuotedEnd }

MaxSegments == MaxColumns + 1

\* column lists: a few segments with a comma between them
SegmentTexts ==
  { JoinWith(ts, <<",">>) : ts \in TokenSeqs(Segments, MaxSegments) }

\* a.x as y
ExprLowerY ==
  <<"a",".","x"," ","a","s"," ","y">>

\* b.z as Y
ExprUpperY ==
  <<"b",".","z"," ","a","s"," ","Y">>

\* c.v as u
ExprAliasU ==
  <<"c",".","v"," ","a","s"," ","u">>

\* column lists whose expressions share an alias but for its letter case
AliasExprs == {ExprLowerY, ExprUpperY, ExprAliasU, ExprNoAs}

AliasClauses ==
  { JoinWith(ts, <<",", "\n">>) : ts \in TokenSeqs(AliasExprs, MaxSegments) }

\* final CTEs whose projection has conditional columns, columns that are not
\* conditional, and a column whose name has the letters case
RowLines == {LineColumn, LineCall, LineCase, LineCaseId}

RowTexts ==
  { SqlText(HeadFinal, <<KwSelect>> \o ts \o <<LineFrom>>, TailFinal) :
      ts \in TokenSeqs(RowLines, MaxColumns) }

\* OTHER
ColOther ==
  <<"O","T","H","E","R">>

(***************************************************************************)
(* The calls as a state machine.                                           *)
(***************************************************************************)
Locals == [i |-> i, depth |-> depth, paren_depth |-> paren_depth,
           current |-> current, expressions |-> expressions]

SetLocals(st) ==
  /\ i' = st.i
  /\ depth' = st.depth
  /\ paren_depth' = st.paren_depth
  /\ current' = st.current
  /\ expressions' = st.expressions

\* a call of split_by_comma_respecting_case or _split_by_comma on a text of T
InitSplit(f, T) ==
  /\ fn = f
  /\ pc = "scan"
  /\ text \in T
  /\ i = 0
  /\ depth = 0
  /\ paren_depth = 0
  /\ current = <<>>
  /\ expressions = <<>>
  /\ select_clause = <<>>
  /\ columns = EmptyDict
  /\ expression = <<>>
  /\ case_logic = None
  /\ sql_content = <<>>
  /\ col_name = <<>>
  /\ diagnostics = <<>>
  /\ transform_display = <<>>

\* a call of parse_select_columns on a select clause
InitParse ==
  /\ fn = "parse_select_columns"
  /\ pc = "call"
  /\ select_clause \in SelectClauses
  /\ text = <<>>
  /\ i = 0
  /\ depth = 0
  /\ paren_depth = 0
  /\ current = <<>>
  /\ expressions = <<>>
  /\ columns = EmptyDict
  /\ expression = <<>>
  /\ case_logic = None
  /\ sql_content = <<>>
  /\ col_name = <<>>
  /\ diagnostics = <<>>
  /\ transform_display = <<>>

\* the functions whose splitter is split_by_comma_respecting_case
UsesSplit ==
  {"split_by_comma_respecting_case", "parse_select_columns",
   "generate_comprehensive_mapping"}

\* the functions that reach parse_select_columns
UsesParse == {"parse_select_columns", "generate_comprehensive_mapping"}

\* parse_select_columns, lines 73-82: comments and templates are removed
\* and the splitter is called
ParseSelectColumns ==
  /\ pc = "call"
  /\ fn \in UsesParse
  /\ text' = ReplaceJinja(StripComments(select_clause))
  /\ i' = 0
  /\ depth' = 0
  /\ paren_depth' = 0
  /\ current' = <<>>
  /\ expressions' = <<>>
  /\ pc' = "scan"
  /\ UNCHANGED <<fn, select_clause, columns, caseVars, sqlVars>>

\* one iteration of split_by_comma_respecting_case's loop
Scan ==
  /\ pc = "scan"
  /\ fn \in UsesSplit
  /\ i < Len(text)
  /\ IF SplitRaises(text, i)
     THEN /\ pc' = "error"
          /\ UNCHANGED <<i, depth, paren_depth, current, expressions>>
     ELSE /\ SetLocals(SplitStep(text, Locals))
          /\ pc' = pc
  /\ UNCHANGED <<fn, text, parseVars, caseVars, sqlVars>>

\* the loop of split_by_comma_respecting_case ends and the function returns
Return ==
  /\ pc = "scan"
  /\ fn \in UsesSplit
  /\ i >= Len(text)
  /\ expressions' = SplitResult(Locals)
  /\ pc' = IF fn = "split_by_comma_respecting_case" THEN "done" ELSE "columns"
  /\ UNCHANGED <<fn, text, i, depth, paren_depth, current, parseVars, caseVars, sqlVars>>

\* parse_select_columns, lines 84-105: the loop over the expressions
BuildColumns ==
  /\ pc = "columns"
  /\ fn \in UsesParse
  /\ columns' = ColumnsFrom(expressions, 1, EmptyDict)
  /\ pc' = IF fn = "parse_select_columns" THEN "done" ELSE "rows"
  /\ UNCHANGED <<fn, splitVars, select_clause, caseVars, sqlVars>>

\* the methods whose splitter is _split_by_comma
UsesDocSplit == {"_split_by_comma", "_parse_select_columns"}

\* _parse_select_columns, lines 161-170: the select keyword and the from
\* clause are removed and the splitter is called
DocParseSelectColumns ==
  /\ pc = "call"
  /\ fn = "_parse_select_columns"
  /\ text' = SelectContent(select_clause)
  /\ i' = 0
  /\ depth' = 0
  /\ paren_depth' = 0
  /\ current' = <<>>
  /\ expressions' = <<>>
  /\ pc' = "scan"
  /\ UNCHANGED <<fn, select_clause, columns, caseVars, sqlVars>>

\* one iteration of _split_by_comma's loop
DocScan ==
  /\ pc = "scan"
  /\ fn \in UsesDocSplit
  /\ i < Len(text)
  /\ SetLocals(DocSplitStep(text, Locals))
  /\ UNCHANGED <<fn, pc, text, parseVars, caseVars, sqlVars>>

\* the loop of _split_by_comma ends and the method returns
DocReturn ==
  /\ pc = "scan"
  /\ fn \in UsesDocSplit
  /\ i >= Len(text)
  /\ expressions' = DocSplitResult(Locals)
  /\ pc' = IF fn = "_split_by_comma" THEN "done" ELSE "columns"
  /\ UNCHANGED <<fn, text, i, depth, paren_depth, current, parseVars, caseVars, sqlVars>>

\* _parse_select_columns, lines 172-198: the loop over the column strings
DocBuildColumns ==
  /\ pc = "columns"
  /\ fn = "_parse_select_columns"
  /\ columns' = DocColumnsFrom(expressions, 1, <<>>)
  /\ pc' = "done"
  /\ UNCHANGED <<fn, splitVars, select_clause, caseVars, sqlVars>>

\* a call of _parse_select_columns on a select statement (held in
\* select_clause), with the list it returns held in columns
InitDocParse ==
  /\ fn = "_parse_select_columns"
  /\ pc = "call"
  /\ select_clause \in SelectStatements
  /\ text = <<>>
  /\ i = 0
  /\ depth = 0
  /\ paren_depth = 0
  /\ current = <<>>
  /\ expressions = <<>>
  /\ columns = <<>>
  /\ expression = <<>>
  /\ case_logic = None
  /\ sql_content = <<>>
  /\ col_name = <<>>
  /\ diagnostics = <<>>
  /\ transform_display = <<>>

\* a call of extract_case_logic on an expression
InitCase ==
  /\ fn = "extract_case_logic"
  /\ pc = "call"
  /\ expression \in CaseExprs
  /\ case_logic = None
  /\ text = <<>>
  /\ i = 0
  /\ depth = 0
  /\ paren_depth = 0
  /\ current = <<>>
  /\ expressions = <<>>
  /\ select_clause = <<>>
  /\ columns = EmptyDict
  /\ sql_content = <<>>
  /\ col_name = <<>>
  /\ diagnostics = <<>>
  /\ transform_display = <<>>

\* extract_case_logic, lines 157-205
ExtractCaseLogic ==
  /\ pc = "call"
  /\ fn = "extract_case_logic"
  /\ case_logic' = extract_case_logic(expression)
  /\ pc' = "done"
  /\ UNCHANGED <<fn, splitVars, parseVars, expression, sqlVars>>

\* generate_comprehensive_mapping has read the SQL file, lines 291-292
InitSql ==
  /\ fn = "generate_comprehensive_mapping"
  /\ pc = "parse_final"
  /\ sql_content \in SqlTexts
  /\ text = <<>>
  /\ i = 0
  /\ depth = 0
  /\ paren_depth = 0
  /\ current = <<>>
  /\ expressions = <<>>
  /\ select_clause = <<>>
  /\ columns = EmptyDict
  /\ expression = <<>>
  /\ case_logic = None
  /\ col_name = <<>>
  /\ diagnostics = <<>>
  /\ transform_display = <<>>

\* parse_final_select_enhanced, lines 35-67, called at line 300: it returns
\* the empty dict (lines 42 and 61), and nothing with it, or it calls
\* parse_select_columns on the select clause
ParseFinalSelectEnhanced ==
  /\ pc = "parse_final"
  /\ fn = "generate_comprehensive_mapping"
  /\ IF ~StructureFound(sql_content)
     THEN /\ columns' = EmptyDict
          /\ pc' = "rows"
          /\ UNCHANGED select_clause
     ELSE /\ select_clause' = SelectClauseOf(sql_content)
          /\ pc' = "call"
          /\ UNCHANGED columns
  /\ UNCHANGED <<fn, splitVars, caseVars, sqlVars>>

\* the names of the inventory's columns, line 327
InventoryColumns == DOMAIN columns \cup {ColOther}

\* generate_comprehensive_mapping, lines 327-342 and 387: one iteration of
\* the loop over the inventory's columns, the CASE logic of the column and
\* the transformation text of its row
MappingRow ==
  /\ pc = "rows"
  /\ fn = "generate_comprehensive_mapping"
  /\ \E c \in InventoryColumns :
       LET known == c \in DOMAIN columns
           e == IF known THEN columns[c].expression ELSE <<>>
           is_case == IF known THEN columns[c].is_case ELSE FALSE
           cl == IF is_case /\ e # <<>> THEN extract_case_logic(e) ELSE None
       IN /\ col_name' = c
          /\ expression' = e
          /\ case_logic' = cl
          /\ transform_display' = TransformDisplay(e, cl)
  /\ UNCHANGED <<fn, pc, splitVars, parseVars, sql_content, diagnostics>>

\* split_by_comma_respecting_case, called alone or by parse_select_columns
Init == InitSplit("split_by_comma_respecting_case", SplitTexts) \/ InitParse

Next == ParseSelectColumns \/ Scan \/ Return \/ BuildColumns

Spec == Init /\ [][Next]_vars

\* split_by_comma_respecting_case on column lists made of segments
InitSegments == InitSplit("split_by_comma_respecting_case", SegmentTexts)

NextSegments == Scan \/ Return

SpecSegments == InitSegments /\ [][NextSegments]_vars

\* parse_select_columns on column lists with repeated aliases
InitAliases ==
  /\ fn = "parse_select_columns"
  /\ pc = "call"
  /\ select_clause \in AliasClauses
  /\ text = <<>>
  /\ i = 0
  /\ depth = 0
  /\ paren_depth = 0
  /\ current = <<>>
  /\ expressions = <<>>
  /\ columns = EmptyDict
  /\ expression = <<>>
  /\ case_logic = None
  /\ sql_content = <<>>
  /\ col_name = <<>>
  /\ diagnostics = <<>>
  /\ transform_display = <<>>

SpecAliases == InitAliases /\ [][Next]_vars

\* parse_select_columns on column lists with template blocks and comments
InitTemplate ==
  /\ fn = "parse_select_columns"
  /\ pc = "call"
  /\ select_clause \in TemplateClauses
  /\ text = <<>>
  /\ i = 0
  /\ depth = 0
  /\ paren_depth = 0
  /\ current = <<>>
  /\ expressions = <<>>
  /\ columns = EmptyDict
  /\ expression = <<>>
  /\ case_logic = None
  /\ sql_content = <<>>
  /\ col_name = <<>>
  /\ diagnostics = <<>>
  /\ transform_display = <<>>

SpecTemplate == InitTemplate /\ [][Next]_vars

\* the two splitters on the same texts
InitSplitters ==
  \/ InitSplit("split_by_comma_respecting_case", SplitterTexts)
  \/ InitSplit("_split_by_comma", SplitterTexts)

NextSplitters == Scan \/ Return \/ DocScan \/ DocReturn

SpecSplitters == InitSplitters /\ [][NextSplitters]_vars

\* the two column parsers on the same column lists
InitParsers == InitParse \/ InitDocParse

NextParsers ==
  \/ ParseSelectColumns
  \/ Scan
  \/ Return
  \/ BuildColumns
  \/ DocParseSelectColumns
  \/ DocScan
  \/ DocReturn
  \/ DocBuildColumns

SpecParsers == InitParsers /\ [][NextParsers]_vars

\* extract_case_logic on CASE expressions
NextCase == ExtractCaseLogic

SpecCase == InitCase /\ [][NextCase]_vars

\* generate_comprehensive_mapping: the columns of the final CTE and their
\* CASE logic
NextSql ==
  \/ ParseFinalSelectEnhanced
  \/ ParseSelectColumns
  \/ Scan
  \/ Return
  \/ BuildColumns
  \/ MappingRow

SpecSql == InitSql /\ [][NextSql]_vars

\* generate_comprehensive_mapping on texts whose terminal CTE is named final
InitFinal ==
  /\ fn = "generate_comprehensive_mapping"
  /\ pc = "parse_final"
  /\ sql_content \in FinalTexts
  /\ text = <<>>
  /\ i = 0
  /\ depth = 0
  /\ paren_depth = 0
  /\ current = <<>>
  /\ expressions = <<>>
  /\ select_clause = <<>>
  /\ columns = EmptyDict
  /\ expression = <<>>
  /\ case_logic = None
  /\ col_name = <<>>
  /\ diagnostics = <<>>
  /\ transform_display = <<>>

SpecFinal == InitFinal /\ [][NextSql]_vars

\* generate_comprehensive_mapping on final CTEs with conditional columns
InitRows ==
  /\ fn = "generate_comprehensive_mapping"
  /\ pc = "parse_final"
  /\ sql_content \in RowTexts
  /\ text = <<>>
  /\ i = 0
  /\ depth = 0
  /\ paren_depth = 0
  /\ current = <<>>
  /\ expressions = <<>>
  /\ select_clause = <<>>
  /\ columns = EmptyDict
  /\ expression = <<>>
  /\ case_logic = None
  /\ col_name = <<>>
  /\ diagnostics = <<>>
  /\ transform_display = <<>>

SpecRows == InitRows /\ [][NextSql]_vars

(***************************************************************************)
(* The depth tracker as section 4.1 of the specification states it,        *)
(* written from its text: the counters before offset k of a text.          *)
(***************************************************************************)
\* the keyword at offset k, with a character that is not alphanumeric, or
\* an end of the text, on each side
BoundedWordAt(t, k, kw) ==
  /\ k + Len(kw) <= Len(t)
  /\ \A j \in 1..Len(kw) : LowerChar(t[k + j]) = kw[j]
  /\ k > 0 => ~IsAlnum(t[k])
  /\ k + Len(kw) < Len(t) => ~IsAlnum(t[k + Len(kw) + 1])

RECURSIVE CaseDepthBefore(_, _)
CaseDepthBefore(t, k) ==
  IF k = 0 THEN 0
  ELSE LET d == CaseDepthBefore(t, k - 1)
       IN IF BoundedWordAt(t, k - 1, KwCase) THEN d + 1
          ELSE IF BoundedWordAt(t, k - 1, KwEnd) /\ d > 0 THEN d - 1
          ELSE d

RECURSIVE ParenDepthBefore(_, _)
ParenDepthBefore(t, k) ==
  IF k = 0 THEN 0
  ELSE LET d == ParenDepthBefore(t, k - 1)
       IN IF t[k] = "(" THEN d + 1
          ELSE IF t[k] = ")" /\ d > 0 THEN d - 1
          ELSE d

Commas(t) == {k \in 0..(Len(t) - 1) : t[k + 1] = ","}

\* the commas at nesting depth zero
TopLevelCommas(t) ==
  {k \in Commas(t) : CaseDepthBefore(t, k) = 0 /\ ParenDepthBefore(t, k) = 0}

\* the commas inside parentheses or a CASE...END block
NestedCommas(t) == Commas(t) \ TopLevelCommas(t)

\* the text after the last top-level comma (the whole text when there is none)
LastSegment(t) ==
  IF TopLevelCommas(t) = {} THEN t
  ELSE LET k == CHOOSE a \in TopLevelCommas(t) : \A b \in TopLevelCommas(t) : b <= a
       IN SubSeq(t, k + 2, Len(t))

\* split_by_comma_respecting_case has returned its result in expressions
SplitReturned == fn \in UsesSplit /\ pc \in {"columns", "done"}

C2_IdentifierKeepsDepth ==
  \A id \in {IdentCaseId, IdentEndDate} :
    (Len(text) > Len(id) /\ SubSeq(text, 1, Len(id) + 1) = id \o <<",">>) =>
      /\ i = Len(id) => depth = 0
      /\ pc = "done" => Len(expressions) >= 1 /\ expressions[1] = id

\* C9: each expression that split_by_comma_respecting_case returns is split
\* again into itself alone, unchanged.
C9_Idempotent ==
  SplitReturned =>
    \A k \in 1..Len(expressions) :
      split_by_comma_respecting_case(expressions[k]) = <<expressions[k]>>

\* the steps a call has left at most: the characters still to scan, and the
\* steps before and after the scan
StepsLeft ==
  IF pc = "call" THEN Len(ReplaceJinja(StripComments(select_clause))) + 3
  ELSE IF pc = "scan" THEN Len(text) - i + 2
  ELSE IF pc = "columns" THEN 1
  ELSE 0

\* C10: split_by_comma_respecting_case and parse_select_columns raise no
\* error and return: every step takes StepsLeft down, which is never below
\* zero; while the splitter scans, each step moves the index up by one,
\* never past the end of the text, and the loop is left only with the index
\* at the end of the text.
C10_Terminates ==
  /\ [](pc # "error")
  /\ [](StepsLeft >= 0 /\ (StepsLeft = 0 <=> pc = "done"))
  /\ [][StepsLeft' < StepsLeft]_vars
  /\ [][pc = "scan" /\ pc' = "scan" => i' = i + 1 /\ i' <= Len(text)]_vars
  /\ [][pc = "scan" /\ pc' # "scan" => i = Len(text)]_vars

\* a call that has returned from a text with an unclosed parenthesis and an
\* unclosed CASE
C10_Witness ==
  pc = "done" /\ i = Len(text) /\ paren_depth > 0 /\ depth > 0

\* extract_case_logic has returned its result in case_logic
CaseReturned == fn = "extract_case_logic" /\ pc = "done"

\* the WHEN/THEN units of an expression, one for each WHEN
WhenCount(t) == Cardinality({p \in 0..Len(t) : LitAt(t, p, KwWhen)})

\* C3: extract_case_logic returns one branch for each WHEN/THEN unit, and
\* CASE WHEN a THEN '1' WHEN b THEN '2' ELSE '3' END yields exactly the
\* branches (a, 1), (b, 2) and the else value 3.
C3_OneBranchPerUnit ==
  CaseReturned /\ case_logic # None =>
    /\ Len(case_logic[1].conditions) = WhenCount(expression)
    /\ expression = ExampleCase =>
         case_logic[1] =
           [conditions |-> <<[when |-> <<"a">>, then |-> <<"1">>],
                             [when |-> <<"b">>, then |-> <<"2">>]>>,
            else_value |-> Some(<<"3">>)]

\* C4: the branches are in source order: of two branches, the one earlier in
\* the conditions list never comes from a unit later in the text (the unit
\* of a branch is the one its result literal ends), whatever the kinds of
\* the literals.
C4_SourceOrder ==
  CaseReturned =>
    \A a, b \in DOMAIN KeptMatches(expression) :
      a < b => KeptMatches(expression)[a].end <= KeptMatches(expression)[b].end

\* parse_select_columns has returned its result in columns
ParseReturned == fn = "parse_select_columns" /\ pc = "done"

\* parse_final_select_enhanced has returned its result in columns
ParseFinalReturned == fn = "generate_comprehensive_mapping" /\ pc = "rows"

\* TXN_TYPE
ColTxnType ==
  <<"T","X","N","_","T","Y","P","E">>

\* TXN_DIRECTION
ColTxnDirection ==
  <<"T","X","N","_","D","I","R","E","C","T","I","O","N">>

\* a.txn_type
SrcTxnType ==
  <<"a",".","t","x","n","_","t","y","p","e">>

\* a.amt > 0
CondCredit ==
  <<"a",".","a","m","t"," ",">"," ","0">>

\* a.amt < 0
CondDebit ==
  <<"a",".","a","m","t"," ","<"," ","0">>

\* CREDIT
ValCredit ==
  <<"C","R","E","D","I","T">>

\* DEBIT
ValDebit ==
  <<"D","E","B","I","T">>

\* ZERO\n
ValZero ==
  <<"Z","E","R","O","\n">>

\* C5: for the scenario's statement (alone, or as the body of the final CTE)
\* extraction yields exactly two column mappings, TXN_TYPE, not conditional,
\* with source reference a.txn_type, and TXN_DIRECTION, conditional, with the
\* branches (a.amt > 0, CREDIT) then (a.amt < 0, DEBIT) and else value ZERO.
C5_ScenarioMappings ==
  ParseFinalReturned /\ sql_content \in {SqlScenario, SqlScenarioFinal} =>
    /\ DOMAIN columns = {ColTxnType, ColTxnDirection}
    /\ ~columns[ColTxnType].is_case
    /\ columns[ColTxnType].source_column = SrcTxnType
    /\ columns[ColTxnDirection].is_case
    /\ col_name = ColTxnDirection =>
         case_logic =
           Some([conditions |-> <<[when |-> CondCredit, then |-> ValCredit],
                                  [when |-> CondDebit, then |-> ValDebit]>>,
                 else_value |-> Some(ValZero)])

\* the qualifier.column pairs that occur in an expression
QualifiedPairs(e) ==
  { Slice(e, p, WordEnd(e, WordEnd(e, p) + 1)) :
      p \in {q \in 0..Len(e) : QualifiedAt(e, q) /\ (q = 0 \/ ~IsWord(e[q]))} }

\* the column part of a qualifier.column pair
ColumnPart(q) == Slice(q, WordEnd(q, 0) + 1, Len(q))

\* the source references a record holds
SourceReferences(rec) ==
  IF rec.source_column = <<>> THEN {} ELSE {rec.source_column}

\* a.x and b.y
RefsCoalesce == { <<"a",".","x">>, <<"b",".","y">> }

\* C6: the source references recorded for a stored expression are the set of
\* all qualifier.column pairs in it whose column part is no reserved keyword;
\* coalesce(a.x, b.y, 0) as z gives the alias Z, the source references a.x and
\* b.y, and a record that is not conditional.
C6_AllSourceReferences ==
  ParseReturned =>
    /\ \A c \in DOMAIN columns :
         SourceReferences(columns[c]) =
           { q \in QualifiedPairs(columns[c].expression) :
               Upper(ColumnPart(q)) \notin ReservedKeywords }
    /\ select_clause = ExprCoalesce =>
         /\ DOMAIN columns = { <<"Z">> }
         /\ SourceReferences(columns[<<"Z">>]) = RefsCoalesce
         /\ ~columns[<<"Z">>].is_case

\* C7: on SQL text with no terminal CTE final as ( ... ) select * from final,
\* or with no select-line/from-line pair in the CTE, parse_final_select_enhanced
\* returns an empty result and one diagnostic, and raises no exception.
C7_EmptyWithDiagnostic ==
  fn = "generate_comprehensive_mapping" /\ pc # "parse_final"
    /\ ~StructureFound(sql_content) =>
      /\ pc = "rows"
      /\ columns = EmptyDict
      /\ Len(diagnostics) = 1

\* the offset where the trailing identifier of x starts
TrailingStart(x) ==
  CHOOSE k \in 0..Len(x) :
    /\ \A j \in (k + 1)..Len(x) : IsWord(x[j])
    /\ k = 0 \/ ~IsWord(x[k])

\* x is <expression> AS <identifier> or <expression> <identifier>
HasTrailingIdentifier(x) ==
  LET k == TrailingStart(x)
  IN k < Len(x) /\ k > 0 /\ IsSpace(x[k]) /\ HasText(Slice(x, 0, k))

\* the text before the trailing identifier, and before the as keyword if
\* there is one with text before it
TextBefore(x) ==
  LET b == Strip(Slice(x, 0, TrailingStart(x)))
      n == Len(b)
  IN IF n > 2 /\ Lower(Slice(b, n - 2, n)) = KwAs /\ IsSpace(b[n - 2])
        /\ HasText(Slice(b, 0, n - 2))
     THEN Strip(Slice(b, 0, n - 2))
     ELSE b

\* C8: for every top-level expression <expression> AS <identifier> or
\* <expression> <identifier>, the alias extracted is the trailing identifier
\* in upper case and the expression stored is the text before it.
C8_TrailingAlias ==
  ParseReturned =>
    \A k \in DOMAIN expressions :
      LET x == Strip(expressions[k])
          alias == Upper(Slice(x, TrailingStart(x), Len(x)))
      IN HasTrailingIdentifier(x) =>
           /\ alias \in DOMAIN columns
           /\ columns[alias].expression = JoinSplit(TextBefore(x))

\* the word CASE occurs in e with no identifier character on either side
HasCaseWord(e) ==
  \E p \in 0..Len(e) :
    /\ LitAt(e, p, KwCase)
    /\ p = 0 \/ ~IsWord(e[p])
    /\ p + 4 = Len(e) \/ ~IsWord(e[p + 5])

\* C11: a record is flagged conditional (is_case) if and only if the word
\* CASE occurs at a word boundary in its stored expression; case inside a
\* longer identifier, as in a.case_id, does not flag it.
C11_FlagIsCaseWord ==
  ParseReturned =>
    \A c \in DOMAIN columns :
      columns[c].is_case <=> HasCaseWord(columns[c].expression)

\* _parse_select_columns has returned its result in columns
DocParseReturned == fn = "_parse_select_columns" /\ pc = "done"

\* the top-level expressions that parse_select_columns matches
Matched == { k \in DOMAIN expressions :
               Strip(expressions[k]) # <<>> /\ AsMatch(Strip(expressions[k])).matched }

\* the column strings that _parse_select_columns matches
DocMatched == { k \in DOMAIN expressions :
                  Strip(expressions[k]) # <<>>
                  /\ DocAsMatch(Strip(expressions[k])).matched }

\* C12: every record of parse_select_columns and of _parse_select_columns has
\* an alias that is not empty and was matched by the alias pattern in one of
\* the expressions; an expression that does not match gives no record.
C12_AliasMatched ==
  /\ ParseReturned =>
       \A c \in DOMAIN columns :
         /\ c # <<>>
         /\ \E k \in Matched : Upper(AsMatch(Strip(expressions[k])).g2) = c
  /\ DocParseReturned =>
       /\ Len(columns) = Cardinality(DocMatched)
       /\ \A j \in DOMAIN columns :
            /\ columns[j].column_name # <<>>
            /\ \E k \in DocMatched :
                 Upper(DocAsMatch(Strip(expressions[k])).g2) = columns[j].column_name

\* an expression that parse_select_columns does not skip
IsMatchedExpr(x) == Strip(x) # <<>> /\ AsMatch(Strip(x)).matched

\* C13: in parse_select_columns an expression that does not match the alias
\* pattern is skipped, and the records are those of the column list without
\* it: the records built from the matching expressions alone.
C13_SkipLeavesOthers ==
  ParseReturned =>
    columns = ColumnsFrom(SelectSeq(expressions, IsMatchedExpr), 1, EmptyDict)

\* a column list with an expression that is skipped and one that is not
C13_Witness ==
  /\ ParseReturned
  /\ \E k \in DOMAIN expressions :
       Strip(expressions[k]) # <<>> /\ ~IsMatchedExpr(expressions[k])
  /\ \E k \in DOMAIN expressions : k > 1 /\ IsMatchedExpr(expressions[k])
  /\ columns # EmptyDict

\* the word ELSE starts at offset p, no identifier character on either side
ElseWordAt(t, p) ==
  /\ LitAt(t, p, KwElse)
  /\ p = 0 \/ ~IsWord(t[p])
  /\ p + 4 = Len(t) \/ ~IsWord(t[p + 5])

\* the text of the literal that starts at offset q: what is between the
\* quotes of a quoted string, or the digits or the word
LiteralText(t, q) ==
  IF q < Len(t) /\ t[q + 1] \in {"'", "\""}
  THEN LET r == CHOOSE x \in (q + 1)..Len(t) :
                  /\ x = Len(t) \/ t[x + 1] = t[q + 1]
                  /\ \A y \in (q + 2)..x : t[y] # t[q + 1]
       IN Slice(t, q + 1, r)
  ELSE Slice(t, q, WordEnd(t, q))

\* the literal after the ELSE of an expression that has an ELSE clause
ElseLiteral(t) ==
  LET p == CHOOSE x \in 0..Len(t) :
             ElseWordAt(t, x) /\ \A y \in 0..(x - 1) : ~ElseWordAt(t, y)
  IN LiteralText(t, SpaceEnd(t, p + 4))

\* C14: for an expression with no ELSE clause the else_value returned is
\* None, not an empty string; for one with ELSE and a quoted string, an
\* integer or a bare word after it, else_value is the text of that literal.
C14_ElseValue ==
  CaseReturned /\ case_logic # None =>
    IF \E p \in 0..Len(expression) : ElseWordAt(expression, p)
    THEN case_logic[1].else_value = Some(ElseLiteral(expression))
    ELSE case_logic[1].else_value = None

\* a mapping row has been built for the inventory column col_name
RowBuilt == fn = "generate_comprehensive_mapping" /\ pc = "rows" /\ col_name # <<>>

\* the row built is that of a column flagged conditional
ConditionalRow == RowBuilt /\ col_name \in DOMAIN columns /\ columns[col_name].is_case

\* THEN, whitespace and the start of a literal (a quote or a word character)
\* at offset q
ThenLiteralAt(t, q) ==
  /\ LitAt(t, q, KwThen)
  /\ SpaceEnd(t, q + 4) > q + 4
  /\ SpaceEnd(t, q + 4) < Len(t)
  /\ LET c == t[SpaceEnd(t, q + 4) + 1] IN c \in {"'", "\""} \/ IsWord(c)

\* the expression has a WHEN ... THEN <literal> unit
HasUnit(t) ==
  \E p \in 0..Len(t) :
    LitAt(t, p, KwWhen) /\ \E q \in (p + 4)..Len(t) : ThenLiteralAt(t, q)

\* C15: for a column flagged conditional whose expression has no
\* WHEN ... THEN <literal> unit, extract_case_logic returns a case logic with
\* an empty branch list and no error, and building the row leaves the
\* column's record (alias, expression, source reference) as it was.
C15_EmptyBranchList ==
  /\ [](ConditionalRow /\ ~HasUnit(columns[col_name].expression) =>
          /\ case_logic # None
          /\ case_logic[1].conditions = <<>>
          /\ expression = columns[col_name].expression)
  /\ [](fn = "generate_comprehensive_mapping" => pc # "error")
  /\ [][pc = "rows" => columns' = columns /\ pc' = "rows"]_vars

\* the row of a conditional column with no unit in its expression
C15_Witness ==
  /\ ConditionalRow
  /\ ~HasUnit(columns[col_name].expression)
  /\ HasCaseWord(columns[col_name].expression)
  /\ case_logic # None

\* the expression of the row in full
RawExpression == IF col_name \in DOMAIN columns THEN columns[col_name].expression ELSE <<>>

\* extract_case_logic found no branch for the row's column
ZeroBranches == ConditionalRow /\ case_logic # None /\ case_logic[1].conditions = <<>>

\* C16 as stated: when the CASE decomposition of a conditional column yields
\* zero branches, the column stays flagged conditional and the text shown in
\* the row is the stored expression in full.
C16_RawExpressionInFull ==
  ZeroBranches => columns[col_name].is_case /\ transform_display = RawExpression

\* C16 as amended: ... the text shown in the row is the stored expression cut
\* to its first DisplayLimit (300) characters, the expression in full when it
\* is no longer than that.
C16_RawExpressionCut ==
  ZeroBranches =>
    /\ columns[col_name].is_case
    /\ Len(transform_display) = Min(Len(RawExpression), DisplayLimit)
    /\ \A k \in DOMAIN transform_display : transform_display[k] = RawExpression[k]

\* a row with zero branches whose expression is longer than the limit
C16_Witness ==
  ZeroBranches /\ Len(RawExpression) > DisplayLimit /\ transform_display # <<>>

\* one of the two splitters is scanning its text
Scanning == fn \in {"split_by_comma_respecting_case", "_split_by_comma"} /\ pc = "scan"

\* both depth counters are zero
AtTopLevel == depth = 0 /\ paren_depth = 0

\* the character the scanner is at is a closing parenthesis, or the letters
\* END begin there
AtCloser ==
  /\ i < Len(text)
  /\ \/ text[i + 1] = ")"
     \/ Upper(Slice(text, i, i + 3)) = <<"E","N","D">>

\* C17: while either splitter scans, the parenthesis depth and the CASE
\* depth are never negative, and a stray closing parenthesis or a stray END
\* met at top level leaves the scanner at top level.
C17_DepthsNeverNegative ==
  /\ [](Scanning => depth >= 0 /\ paren_depth >= 0)
  /\ [][Scanning /\ AtTopLevel /\ AtCloser => AtTopLevel']_vars

\* C18: split_by_comma_respecting_case returns the empty sequence for the
\* empty text, and no expression it returns is empty or whitespace-only (so
\* a trailing top-level comma adds no final expression).
C18_NoEmptyExpression ==
  SplitReturned =>
    /\ text = <<>> => expressions = <<>>
    /\ \A k \in 1..Len(expressions) : HasText(expressions[k])

\* the text read from left to right: a comment (from "--" to the end of its
\* line) becomes a newline, a template block (from "{%" to the next "%}")
\* becomes the placeholder, and whatever is inside one of them is not looked
\* at for the other
RECURSIVE BlocksReplaced(_)
BlocksReplaced(s) ==
  IF s = <<>> THEN <<>>
  ELSE IF LitAt(s, 0, CommentMark) /\ \E q \in 3..Len(s) : s[q] = "\n"
  THEN LET n == CHOOSE q \in 3..Len(s) :
                  s[q] = "\n" /\ \A k \in 3..(q - 1) : s[k] # "\n"
       IN <<"\n">> \o BlocksReplaced(SubSeq(s, n + 1, Len(s)))
  ELSE IF LitAt(s, 0, JinjaOpen) /\ \E q \in 2..Len(s) : LitAt(s, q, JinjaClose)
  THEN LET q == CHOOSE a \in 2..Len(s) :
                  LitAt(s, a, JinjaClose)
                  /\ \A b \in 2..(a - 1) : ~LitAt(s, b, JinjaClose)
       IN JinjaPlaceholder \o BlocksReplaced(SubSeq(s, q + 3, Len(s)))
  ELSE <<Head(s)>> \o BlocksReplaced(Tail(s))

\* the locals of the splitter at the end of its scan of a text
RECURSIVE SplitLocalsAtEnd(_, _)
SplitLocalsAtEnd(t, st) ==
  IF st.i < Len(t) THEN SplitLocalsAtEnd(t, SplitStep(t, st)) ELSE st

\* C19: in parse_select_columns every template block is replaced by the
\* placeholder before the split, so that what is inside a block makes no
\* split point and raises neither depth counter: the split has no more
\* expressions, and ends at no greater depths, than the split of the column
\* list with each of its blocks replaced.
C19_BlocksNeverSplit ==
  fn = "parse_select_columns" /\ pc \in {"columns", "done"} =>
    LET st == SplitLocalsAtEnd(BlocksReplaced(select_clause), SplitLocals0)
    IN /\ Len(expressions) <= Len(SplitResult(st))
       /\ depth <= st.depth
       /\ paren_depth <= st.paren_depth

\* the line begins with the keyword after trim, in either case
LineStartsWith(line, kw) == StartsWith(Lower(Strip(line)), kw)

\* the index (from 1) of the first line that begins with select, 0 when
\* there is none
FirstSelectLine(lines) ==
  IF \E k \in DOMAIN lines : LineStartsWith(lines[k], KwSelect)
  THEN CHOOSE k \in DOMAIN lines :
         /\ LineStartsWith(lines[k], KwSelect)
         /\ \A j \in 1..(k - 1) : ~LineStartsWith(lines[j], KwSelect)
  ELSE 0

\* the index of the first line after line s that begins with from, 0 when
\* there is none
FirstFromLineAfter(lines, s) ==
  IF \E k \in (s + 1)..Len(lines) : LineStartsWith(lines[k], KwFrom)
  THEN CHOOSE k \in (s + 1)..Len(lines) :
         /\ LineStartsWith(lines[k], KwFrom)
         /\ \A j \in (s + 1)..(k - 1) : ~LineStartsWith(lines[j], KwFrom)
  ELSE 0

\* C20: the projection that parse_final_select_enhanced hands on starts
\* after the first line of the terminal CTE body that begins with select and
\* ends before the first later line that begins with from; a further line
\* that begins with select before that from line does not move its start.
C20_StartsAtFirstSelect ==
  fn = "generate_comprehensive_mapping" /\ pc = "call" =>
    LET lines == SplitLines(FinalMatch(sql_content).g1)
        s == FirstSelectLine(lines)
        f == FirstFromLineAfter(lines, s)
    IN /\ s > 0
       /\ f > 0
       /\ select_clause = JoinWith(SubSeq(lines, s + 1, f - 1), <<"\n">>)

\* a CTE named final begins at offset s: the name is a whole word
NamedFinalAt(t, s) == FinalHeadAt(t, s) /\ (s = 0 \/ ~IsWord(t[s]))

\* the opening parentheses less the closing ones in t[a:e]
ParenBalance(t, a, e) ==
  Cardinality({k \in (a + 1)..e : t[k] = "("})
    - Cardinality({k \in (a + 1)..e : t[k] = ")"})

\* the offset e >= b of a closing parenthesis with t[b:e] balanced
ClosesAt(t, b, e) == e < Len(t) /\ t[e + 1] = ")" /\ ParenBalance(t, b, e) = 0

\* the CTE named final is closed at offset e and select * from final follows
IsFinalBody(t, s, e) ==
  /\ NamedFinalAt(t, s)
  /\ e >= FinalBodyStart(t, s)
  /\ ClosesAt(t, FinalBodyStart(t, s), e)
  /\ \A y \in FinalBodyStart(t, s)..(e - 1) : ~ClosesAt(t, FinalBodyStart(t, s), y)
  /\ FinalTailAt(t, e)

\* parse_final_select_enhanced has located a CTE body
BodyLocated ==
  /\ fn = "generate_comprehensive_mapping"
  /\ pc # "parse_final"
  /\ FinalMatch(sql_content).matched

\* C21: the CTE body that parse_final_select_enhanced locates is the text
\* between the opening parenthesis of the CTE named final and its matching
\* closing parenthesis, the one that select * from final follows; it does not
\* start at a CTE whose name ends in final nor span more than one CTE.
C21_BodyOfFinalCte ==
  BodyLocated =>
    \E s \in 0..Len(sql_content) : \E e \in s..Len(sql_content) :
      /\ IsFinalBody(sql_content, s, e)
      /\ FinalMatch(sql_content).g1 =
           Slice(sql_content, FinalBodyStart(sql_content, s), e)

\* C22: every branch condition that extract_case_logic returns is the text
\* between a WHEN and the next THEN after it: no condition contains the
\* keyword THEN or a further WHEN.
C22_ConditionUpToNextThen ==
  CaseReturned /\ case_logic # None =>
    \A k \in DOMAIN case_logic[1].conditions :
      LET when == Lower(case_logic[1].conditions[k].when)
      IN ~Contains(when, KwThen) /\ ~Contains(when, KwWhen)

\* the text without its single quotes: each single-quoted literal becomes the
\* integer or the bare word of the same text
Unquoted(t) == SelectSeq(t, LAMBDA c : c # "'")

\* the expression has a THEN with a single-quoted literal, and no quoted
\* literal that is empty
HasQuotedResult(t) ==
  /\ \E p \in 0..Len(t) : LitAt(t, p, KwThen \o <<" ", "'">>)
  /\ ~Contains(t, <<"'", "'">>)

\* C23: a branch result carries its literal kind: the branches that
\* extract_case_logic returns for an expression with quoted results (THEN '1',
\* THEN 'x') differ from those it returns for the same expression with the
\* integers and bare words of the same text (THEN 1, THEN x).
C23_LiteralKindKept ==
  CaseReturned /\ HasQuotedResult(expression) =>
    case_logic[1].conditions
      # extract_case_logic(Unquoted(expression))[1].conditions

\* C24: a case logic exists for a column exactly when the column is flagged
\* conditional: extract_case_logic returns a case logic for a stored
\* expression if and only if parse_select_columns has set is_case for it, and
\* the row built by generate_comprehensive_mapping has a case logic if and
\* only if its column is flagged.
C24_CaseLogicIffFlagged ==
  ParseFinalReturned =>
    /\ \A name \in DOMAIN columns :
         (extract_case_logic(columns[name].expression) # None)
           <=> columns[name].is_case
    /\ RowBuilt => ((case_logic # None) <=> ConditionalRow)

\* a row with a case logic has been built from a column list that also has a
\* column that is not conditional
C24_Witness ==
  /\ ConditionalRow
  /\ case_logic # None
  /\ \E name \in DOMAIN columns : ~columns[name].is_case

\* split_by_comma_respecting_case, called alone, has returned
SplitterReturned == fn = "split_by_comma_respecting_case" /\ pc = "done"

\* the text without a final segment that is empty or whitespace-only and
\* without the comma before that segment
WithoutBlankTail(t) ==
  IF HasText(LastSegment(t)) THEN t
  ELSE IF TopLevelCommas(t) = {} THEN <<>>
  ELSE SubSeq(t, 1, Len(t) - Len(LastSegment(t)) - 1)

\* C25: split_by_comma_respecting_case loses no text: the returned
\* expressions joined with "," are the input, less a final segment that is
\* empty or whitespace-only and the comma before it.
C25_JoinReproducesInput ==
  SplitterReturned => JoinWith(expressions, <<",">>) = WithoutBlankTail(text)

\* a returned split of a text with a nested comma, blanks inside a segment
\* and a whitespace-only final segment
C25_Witness ==
  /\ SplitterReturned
  /\ NestedCommas(text) # {}
  /\ Len(expressions) >= 2
  /\ \E k \in DOMAIN expressions : IsSpace(Head(expressions[k] \o <<"x">>))
  /\ LastSegment(text) # <<>>
  /\ ~HasText(LastSegment(text))

\* the line up to its comment mark, the whole line when it has none
BeforeComment(line) ==
  IF \E p \in 0..Len(line) : LitAt(line, p, CommentMark)
  THEN LET p == CHOOSE a \in 0..Len(line) :
                  LitAt(line, a, CommentMark)
                  /\ \A b \in 0..(a - 1) : ~LitAt(line, b, CommentMark)
       IN Slice(line, 0, p)
  ELSE line

\* the projection with the text after "--" removed from each of its lines
WithoutComments(clause) ==
  LET lines == SplitLines(clause)
  IN JoinWith([k \in DOMAIN lines |-> BeforeComment(lines[k])], <<"\n">>)

\* C26: in the projection that parse_final_select_enhanced hands to
\* parse_select_columns the text after "--" is removed from every line, the
\* last line included, before the split: the text that is split is the
\* projection without its comments, and so are the records returned.
C26_CommentsRemoved ==
  fn = "generate_comprehensive_mapping" =>
    /\ pc = "scan" => text = WithoutComments(select_clause)
    /\ pc = "rows" /\ StructureFound(sql_content) =>
         columns = parse_select_columns(WithoutComments(select_clause))

\* the first token of the line is the keyword: the line begins with it after
\* trim and no word character follows it
LineBeginsWithWord(line, kw) ==
  LET stripped == Lower(Strip(line))
  IN /\ StartsWith(stripped, kw)
     /\ Len(stripped) > Len(kw) => ~IsWord(stripped[Len(kw) + 1])

\* the index (from 1) of the first line after line s whose first token is
\* the keyword, 0 when there is none
FirstWordLineAfter(lines, s, kw) ==
  IF \E k \in (s + 1)..Len(lines) : LineBeginsWithWord(lines[k], kw)
  THEN CHOOSE k \in (s + 1)..Len(lines) :
         /\ LineBeginsWithWord(lines[k], kw)
         /\ \A j \in (s + 1)..(k - 1) : ~LineBeginsWithWord(lines[j], kw)
  ELSE 0

\* the body has one line whose first token is select, and a later line whose
\* first token is from
OneSelectLine(lines) ==
  /\ Cardinality({k \in DOMAIN lines : LineBeginsWithWord(lines[k], KwSelect)}) = 1
  /\ FirstWordLineAfter(lines, FirstWordLineAfter(lines, 0, KwSelect), KwFrom) > 0

\* C27: a projection line whose first token is an identifier that begins
\* with from or select (from_account_id, selected_flag) is no boundary line:
\* the projection handed on runs from the select line to the from line, with
\* that line and every line after it up to the from line in it.
C27_IdentifierIsNoBoundary ==
  fn = "generate_comprehensive_mapping" /\ pc = "call" =>
    LET lines == SplitLines(FinalMatch(sql_content).g1)
        s == FirstWordLineAfter(lines, 0, KwSelect)
        f == FirstWordLineAfter(lines, s, KwFrom)
    IN OneSelectLine(lines) =>
         select_clause = JoinWith(SubSeq(lines, s + 1, f - 1), <<"\n">>)

\* the uppercased alias of the expression at index k, which matches
AliasAt(k) == Upper(Strip(AsMatch(Strip(expressions[k])).g2))

\* the last of the matching expressions with the alias c
LastWithAlias(c) ==
  CHOOSE k \in Matched : AliasAt(k) = c /\ \A j \in Matched : AliasAt(j) = c => j <= k

\* C28: parse_select_columns returns one record for each distinct uppercased
\* alias among the expressions that match the alias pattern, and for an alias
\* that several expressions have, the record of the last of them.
C28_LaterAliasWins ==
  ParseReturned =>
    /\ DOMAIN columns = { AliasAt(k) : k \in Matched }
    /\ \A c \in DOMAIN columns :
         columns[c] = ColumnRecord(AsMatch(Strip(expressions[LastWithAlias(c)])))

\* a column list where two expressions with different records have the same
\* alias but for its letter case, and a third has another alias
C28_Witness ==
  /\ ParseReturned
  /\ \E j \in Matched : \E k \in Matched :
       /\ j < k
       /\ AliasAt(j) = AliasAt(k)
       /\ AsMatch(Strip(expressions[j])).g2 # AsMatch(Strip(expressions[k])).g2
       /\ AsMatch(Strip(expressions[j])).g1 # AsMatch(Strip(expressions[k])).g1
  /\ Cardinality(DOMAIN columns) = 2

\* the empty string literal
EmptyLiteral == <<"'", "'">>

\* the text with 0 put into each empty string literal
RECURSIVE Filled(_)
Filled(t) ==
  IF Len(t) < 2 THEN t
  ELSE IF SubSeq(t, 1, 2) = EmptyLiteral
  THEN <<"'", "0", "'">> \o Filled(SubSeq(t, 3, Len(t)))
  ELSE <<Head(t)>> \o Filled(Tail(t))

\* the conditions of the branches of a case logic, in order
WhensOf(cl) == [k \in DOMAIN cl[1].conditions |-> cl[1].conditions[k].when]

\* C29: extract_case_logic keeps a unit whose result is the empty string
\* literal: an expression with WHEN c THEN '' has a branch with an empty
\* result, and the conditions of its branches are those of the expression
\* with a result that is not empty in the place of each ''.
C29_EmptyResultKept ==
  CaseReturned /\ Contains(expression, EmptyLiteral) /\ case_logic # None =>
    /\ \E k \in DOMAIN case_logic[1].conditions :
         case_logic[1].conditions[k].then = <<>>
    /\ WhensOf(case_logic) = WhensOf(extract_case_logic(Filled(expression)))

\* offset k is inside a single-quoted string literal: an odd number of
\* quotes is before it
InQuotes(t, k) == Cardinality({j \in 1..k : t[j] = "'"}) % 2 = 1

\* the CASE depth before offset k, with the keywords inside string literals
\* not counted
RECURSIVE QuotedCaseDepthBefore(_, _)
QuotedCaseDepthBefore(t, k) ==
  IF k = 0 THEN 0
  ELSE LET d == QuotedCaseDepthBefore(t, k - 1)
       IN IF InQuotes(t, k - 1) THEN d
          ELSE IF BoundedWordAt(t, k - 1, KwCase) THEN d + 1
          ELSE IF BoundedWordAt(t, k - 1, KwEnd) /\ d > 0 THEN d - 1
          ELSE d

\* C30: in split_by_comma_respecting_case the words CASE and END inside a
\* single-quoted string literal do not change the CASE depth, and a comma
\* between a CASE keyword and its matching END keyword is never a split
\* point.
C30_QuotedKeywordsIgnored ==
  /\ [](fn = "split_by_comma_respecting_case" /\ pc = "scan" =>
          depth = QuotedCaseDepthBefore(text, i))
  /\ [][fn = "split_by_comma_respecting_case" /\ pc = "scan" /\ pc' = "scan"
          /\ Len(expressions') > Len(expressions) =>
            QuotedCaseDepthBefore(text, i) = 0]_vars

====
